---------------------------- MODULE Spec2Model ----------------------------
(***************************************************************************)
(* A model of the OCR text-click pipeline of ios-interact-mcp:             *)
(*   ios_interact_mcp/ocr_controller.py            (class-based pipeline)  *)
(*   ios_interact_mcp/ocr_controller_functional.py (functional pipeline)   *)
(*                                                                         *)
(* Every coroutine is cut at its await points: one action per segment      *)
(* between two awaits.  The simulator window, the menu bar, the temp       *)
(* directory and the external processes (osascript, screencapture, OCR)    *)
(* are the environment; every external call may succeed or fail.           *)
(* Numbers are Python ints or floats (IEEE 754 binary64, rounded as the    *)
(* hardware rounds); int() truncates toward zero as in Python.             *)
(***************************************************************************)
EXTENDS Integers, Sequences, FiniteSets, TLC

(***************************************************************************)
(* Bounds of the model.                                                    *)
(***************************************************************************)
\* invocations a task may start one after the other
MaxCalls == 2
\* longest list of annotations the OCR engine returns
MaxAnnotations == 3
\* normalized OCR coordinates are multiples of 1/NormDen
NormDen == 4
\* size in pixels of the captured image
ImgW == 5
ImgH == 7

(***************************************************************************)
(* Python ints and exact fractions [n, d].                                 *)
(***************************************************************************)
Abs(a) == IF a < 0 THEN -a ELSE a

RECURSIVE GCD(_, _)
GCD(a, b) == IF b = 0 THEN a ELSE GCD(b, a % b)

\* the fraction n/d in lowest terms, d > 0
Q(n, d) ==
    LET s == IF d < 0 THEN -1 ELSE 1
        g == GCD(Abs(n), Abs(d))
    IN  [n |-> (s * n) \div g, d |-> (s * d) \div g]

QInt(k) == [n |-> k, d |-> 1]
QAdd(a, b) == Q(a.n * b.d + b.n * a.d, a.d * b.d)
QSub(a, b) == Q(a.n * b.d - b.n * a.d, a.d * b.d)
QMul(a, b) == Q(a.n * b.n, a.d * b.d)
QDiv(a, b) == Q(a.n * b.d, a.d * b.n)

(***************************************************************************)
(* Natural numbers of any size: sequences of limbs, least significant      *)
(* first, no leading zero limb; zero is the empty sequence.                *)
(***************************************************************************)
\* a limb holds LimbBits bits: the product of two limbs is below 2^31
LimbBase == 2^15

\* the number of bits of k >= 0
RECURSIVE IntBitLen(_)
IntBitLen(k) == IF k = 0 THEN 0 ELSE 1 + IntBitLen(k \div 2)

LimbBits == IntBitLen(LimbBase) - 1

RECURSIVE BStrip(_)
BStrip(a) ==
    IF a = <<>> THEN <<>>
    ELSE IF a[Len(a)] = 0 THEN BStrip(SubSeq(a, 1, Len(a) - 1))
    ELSE a

RECURSIVE BFromInt(_)
BFromInt(k) == IF k = 0 THEN <<>> ELSE <<k % LimbBase>> \o BFromInt(k \div LimbBase)

RECURSIVE BToInt(_)
BToInt(a) == IF a = <<>> THEN 0 ELSE a[1] + LimbBase * BToInt(Tail(a))

Limb(a) == IF a = <<>> THEN 0 ELSE a[1]
Rest(a) == IF a = <<>> THEN <<>> ELSE Tail(a)

RECURSIVE BAddC(_, _, _)
BAddC(a, b, c) ==
    IF a = <<>> /\ b = <<>> THEN (IF c = 0 THEN <<>> ELSE <<c>>)
    ELSE LET s == Limb(a) + Limb(b) + c
         IN  <<s % LimbBase>> \o BAddC(Rest(a), Rest(b), s \div LimbBase)

BAdd(a, b) == BAddC(a, b, 0)

\* a - b - c for a >= b + c
RECURSIVE BSubC(_, _, _)
BSubC(a, b, c) ==
    IF a = <<>> THEN <<>>
    ELSE LET d == Limb(a) - Limb(b) - c
         IN  IF d < 0 THEN <<d + LimbBase>> \o BSubC(Rest(a), Rest(b), 1)
             ELSE <<d>> \o BSubC(Rest(a), Rest(b), 0)

BSub(a, b) == BStrip(BSubC(a, b, 0))

\* -1, 0, 1 as a < b, a = b, a > b
RECURSIVE BCmp(_, _)
BCmp(a, b) ==
    IF Len(a) # Len(b) THEN (IF Len(a) < Len(b) THEN -1 ELSE 1)
    ELSE IF a = <<>> THEN 0
    ELSE IF a[Len(a)] # b[Len(b)] THEN (IF a[Len(a)] < b[Len(b)] THEN -1 ELSE 1)
    ELSE BCmp(SubSeq(a, 1, Len(a) - 1), SubSeq(b, 1, Len(b) - 1))

\* a * k + c for a limb k
RECURSIVE BMulSmall(_, _, _)
BMulSmall(a, k, c) ==
    IF a = <<>> THEN (IF c = 0 THEN <<>> ELSE <<c>>)
    ELSE LET p == a[1] * k + c
         IN  <<p % LimbBase>> \o BMulSmall(Tail(a), k, p \div LimbBase)

RECURSIVE BMul(_, _)
BMul(a, b) ==
    IF a = <<>> \/ b = <<>> THEN <<>>
    ELSE BStrip(BAdd(BMulSmall(a, b[1], 0), <<0>> \o BMul(a, Tail(b))))

\* quotient and remainder of a by a limb k > 0
RECURSIVE BDivSmall(_, _)
BDivSmall(a, k) ==
    IF a = <<>> THEN [q |-> <<>>, r |-> 0]
    ELSE LET hi == BDivSmall(Tail(a), k)
             cur == hi.r * LimbBase + a[1]
         IN  [q |-> BStrip(<<cur \div k>> \o hi.q), r |-> cur % k]

\* a * 2^k
BShl(a, k) ==
    IF a = <<>> THEN <<>>
    ELSE [i \in 1..(k \div LimbBits) |-> 0] \o BMulSmall(a, 2^(k % LimbBits), 0)

\* floor(a / 2^k)
BShr(a, k) ==
    IF Len(a) <= k \div LimbBits THEN <<>>
    ELSE BDivSmall(SubSeq(a, (k \div LimbBits) + 1, Len(a)), 2^(k % LimbBits)).q

BitLen(a) == IF a = <<>> THEN 0 ELSE LimbBits * (Len(a) - 1) + IntBitLen(a[Len(a)])

BOdd(a) == a # <<>> /\ a[1] % 2 = 1

\* the number of zero bits at the low end of k > 0
RECURSIVE IntTrailingZeros(_)
IntTrailingZeros(k) == IF k % 2 = 1 THEN 0 ELSE 1 + IntTrailingZeros(k \div 2)

\* the number of zero bits at the low end of a # <<>>
RECURSIVE BTrailingZeros(_)
BTrailingZeros(a) ==
    IF a[1] = 0 THEN LimbBits + BTrailingZeros(Tail(a)) ELSE IntTrailingZeros(a[1])

\* the largest limb g with b * g <= a, for a < b * LimbBase: g's bits from
\* the top one down
RECURSIVE BDigit(_, _, _, _)
BDigit(a, b, k, g) ==
    IF k = 0 THEN g
    ELSE IF BCmp(BMulSmall(b, g + 2^(k - 1), 0), a) <= 0
    THEN BDigit(a, b, k - 1, g + 2^(k - 1))
    ELSE BDigit(a, b, k - 1, g)

\* long division, a limb at a time: the digit g goes into cur, the
\* remainder so far with the next limb brought down
BDivTake(cur, q, b, g) ==
    [q |-> BStrip(<<g>> \o q), r |-> BSub(cur, BMulSmall(b, g, 0))]
BDivDigit(cur, q, b) == BDivTake(cur, q, b, BDigit(cur, b, LimbBits, 0))
BDivStep(limb, hi, b) == BDivDigit(BStrip(<<limb>> \o hi.r), hi.q, b)

\* quotient and remainder of a by b > 0
RECURSIVE BDivLong(_, _)
BDivLong(a, b) ==
    IF Len(a) < Len(b) THEN [q |-> <<>>, r |-> a]
    ELSE BDivStep(a[1], BDivLong(Tail(a), b), b)

BDivLimb(small) == [q |-> small.q, r |-> BFromInt(small.r)]
BDivMod(a, b) ==
    IF Len(b) = 1 THEN BDivLimb(BDivSmall(a, b[1])) ELSE BDivLong(a, b)

(***************************************************************************)
(* Python floats: IEEE 754 binary64, round to nearest, ties to even.  A    *)
(* float is s * m * 2^e with m of MantissaBits bits, or zero.              *)
(***************************************************************************)
MantissaBits == 53

DZero == [s |-> 1, m |-> <<>>, e |-> 0]

\* s * r * 2^e with r of MantissaBits bits, or of one more after a carry
DNormal(s, r, e) ==
    IF BitLen(r) > MantissaBits
    THEN [s |-> s, m |-> BShr(r, 1), e |-> e + 1]
    ELSE [s |-> s, m |-> r, e |-> e]

\* q rounded up or not: half compares the bits dropped with one half
DRoundUp(s, q, e, half, inexact) ==
    DNormal(s, IF half > 0 \/ (half = 0 /\ (inexact \/ BOdd(q)))
               THEN BAdd(q, <<1>>) ELSE q, e)

DRoundQuot(s, m, e, inexact, k, q) ==
    DRoundUp(s, q, e + k, BCmp(BSub(m, BShl(q, k)), BShl(<<1>>, k - 1)), inexact)

\* m # <<>> has k bits more than MantissaBits
DRoundAt(s, m, e, inexact, k) ==
    IF k <= 0 THEN [s |-> s, m |-> BShl(m, -k), e |-> e + k]
    ELSE DRoundQuot(s, m, e, inexact, k, BShr(m, k))

\* the float nearest to s * m * 2^e (+ a nonzero fraction below m's last bit
\* when inexact)
DRound(s, m, e, inexact) ==
    IF m = <<>> THEN DZero
    ELSE DRoundAt(s, m, e, inexact, BitLen(m) - MantissaBits)

DNeg(x) == IF x.m = <<>> THEN x ELSE [x EXCEPT !.s = -x.s]

Min(a, b) == IF a < b THEN a ELSE b

\* -1, 0, 1 as x < y, x = y, x > y
DCmp(x, y) ==
    IF x.m = <<>> /\ y.m = <<>> THEN 0
    ELSE IF x.m = <<>> THEN -y.s
    ELSE IF y.m = <<>> THEN x.s
    ELSE IF x.s # y.s THEN x.s
    ELSE x.s * BCmp(BShl(x.m, x.e - Min(x.e, y.e)),
                    BShl(y.m, y.e - Min(x.e, y.e)))

\* sa * ma * 2^ex + sb * mb * 2^ex, with c comparing ma and mb
DAddSigned(sa, ma, sb, mb, ex, c) ==
    DRound(IF sa = sb \/ c > 0 THEN sa ELSE sb,
           IF sa = sb THEN BAdd(ma, mb)
           ELSE IF c >= 0 THEN BSub(ma, mb) ELSE BSub(mb, ma),
           ex, FALSE)
DAddAligned(sa, ma, sb, mb, ex) ==
    DAddSigned(sa, ma, sb, mb, ex, BCmp(ma, mb))

DAdd(x, y) ==
    IF x.m = <<>> THEN y
    ELSE IF y.m = <<>> THEN x
    ELSE DAddAligned(x.s, BShl(x.m, x.e - Min(x.e, y.e)),
                     y.s, BShl(y.m, y.e - Min(x.e, y.e)), Min(x.e, y.e))

DSub(x, y) == DAdd(x, DNeg(y))

DMul(x, y) ==
    IF x.m = <<>> \/ y.m = <<>> THEN DZero
    ELSE DRound(x.s * y.s, BMul(x.m, y.m), x.e + y.e, FALSE)

\* s * quot * 2^e for the quotient and remainder quot of a division
DQuot(s, quot, e) == DRound(s, quot.q, e, quot.r # <<>>)

\* x / y for y with tz zero bits at the low end of its mantissa
DDivOdd(x, y, tz, extra) ==
    DQuot(x.s * y.s, BDivMod(BShl(x.m, extra), BShr(y.m, tz)),
          x.e - y.e - tz - extra)

\* x / y for y nonzero
DDiv(x, y) ==
    IF x.m = <<>> \/ y.m = <<>> THEN DZero
    ELSE DDivOdd(x, y, BTrailingZeros(y.m), MantissaBits + 3)

\* int(x): truncation toward zero
DInt(x) ==
    x.s * BToInt(IF x.e >= 0 THEN BShl(x.m, x.e) ELSE BShr(x.m, -x.e))

(***************************************************************************)
(* Python arithmetic.  A number whose value is a fraction n / 2^k with     *)
(* |n| < 2^30 and k <= 14 (an int, or a float that holds the value         *)
(* exactly) is written [n, d] in lowest terms; any other float is written  *)
(* as a binary64 float.  On small fractions +, - and * are exact in        *)
(* binary64 and are computed on the fractions; so is / when the quotient   *)
(* is such a fraction again.                                               *)
(***************************************************************************)
IsFloat(a) == "m" \in DOMAIN a
\* the float a fraction of denominator 2^k is
ToFloat(a) ==
    IF IsFloat(a) THEN a
    ELSE DRound(IF a.n < 0 THEN -1 ELSE 1, BFromInt(Abs(a.n)),
                -(IntBitLen(a.d) - 1), FALSE)

\* the one way a float's value is written
CanonAt(x, odd, ee) ==
    IF ee >= 0 /\ BitLen(odd) + ee <= 30
    THEN QInt(x.s * BToInt(BShl(odd, ee)))
    ELSE IF ee < 0 /\ -ee <= 14 /\ BitLen(odd) <= 30
    THEN [n |-> x.s * BToInt(odd), d |-> 2^(-ee)]
    ELSE x
CanonOdd(x, tz) == CanonAt(x, BShr(x.m, tz), x.e + tz)
Canon(x) == IF x.m = <<>> THEN QInt(0) ELSE CanonOdd(x, BTrailingZeros(x.m))

\* fractions small enough for the exact operations below
Small(a) == ~IsFloat(a) /\ Abs(a.n) < 2^15 /\ a.d <= 2^7

Add(a, b) ==
    IF Small(a) /\ Small(b) THEN QAdd(a, b)
    ELSE Canon(DAdd(ToFloat(a), ToFloat(b)))
Sub(a, b) ==
    IF Small(a) /\ Small(b) THEN QSub(a, b)
    ELSE Canon(DSub(ToFloat(a), ToFloat(b)))
Mul(a, b) ==
    IF Small(a) /\ Small(b) THEN QMul(a, b)
    ELSE Canon(DMul(ToFloat(a), ToFloat(b)))
\* Python's true division a / b for b nonzero
Dyadic(q) == q.d <= 2^14 /\ 2^(IntBitLen(q.d) - 1) = q.d
DivExact(a, b, q) ==
    IF Dyadic(q) THEN q ELSE Canon(DDiv(ToFloat(a), ToFloat(b)))
Div(a, b) ==
    IF Small(a) /\ Small(b) THEN DivExact(a, b, QDiv(a, b))
    ELSE Canon(DDiv(ToFloat(a), ToFloat(b)))

IsZero(a) == ~IsFloat(a) /\ a.n = 0

\* -1, 0, 1 as a < b, a = b, a > b
Cmp(a, b) ==
    IF Small(a) /\ Small(b)
    THEN (IF a.n * b.d < b.n * a.d THEN -1 ELSE IF a.n * b.d = b.n * a.d THEN 0 ELSE 1)
    ELSE DCmp(ToFloat(a), ToFloat(b))

\* Python int(x): truncation toward zero
PyInt(a) ==
    IF IsFloat(a) THEN DInt(a)
    ELSE IF a.n >= 0 THEN a.n \div a.d ELSE -((-a.n) \div a.d)

\* math.floor(a)
FloorFrom(a, i) == IF Cmp(QInt(i), a) > 0 THEN i - 1 ELSE i
Floor(a) == FloorFrom(a, PyInt(a))

\* the integer f"{a:.0f}" prints: the nearest one, a tie goes to the even one
FormatNearest(k, c) ==
    IF c > 0 THEN k + 1
    ELSE IF c < 0 THEN k
    ELSE IF k % 2 = 0 THEN k ELSE k + 1
FormatFrom(a, k) ==
    FormatNearest(k, Cmp(Sub(a, QInt(k)), Div(QInt(1), QInt(2))))
FormatF0(a) == FormatFrom(a, Floor(a))

(***************************************************************************)
(* Text: a string is a sequence of one-character strings.                  *)
(***************************************************************************)
LowerChar(c) ==
    CASE c = "S" -> "s"
      [] c = "E" -> "e"
      [] c = "T" -> "t"
      [] c = "A" -> "a"
      [] OTHER -> c

\* str.lower()
Lower(s) == [i \in 1..Len(s) |-> LowerChar(s[i])]

\* Python's  s in t  for strings
IsSubstring(s, t) ==
    \E i \in 0..(Len(t) - Len(s)) : SubSeq(t, i + 1, i + Len(s)) = s

(***************************************************************************)
(* The environment: the simulator window and its Window menu.              *)
(***************************************************************************)
SimStates == {"windowed", "fullscreen", "unknown"}

\* the fullscreen items the Window menu of the Simulator process shows
MenuItems(state) ==
    CASE state = "fullscreen" -> {"Exit Full Screen"}
      [] state = "windowed" -> {"Enter Full Screen"}
      [] OTHER -> {}

\* keystroke "f" using {control down, command down}: the window toggles,
\* or the transition does not happen (or has not settled when verified)
ToggleResults(state) ==
    CASE state = "fullscreen" -> {"fullscreen", "windowed"}
      [] state = "windowed" -> {"windowed", "fullscreen"}
      [] OTHER -> {"unknown"}

\* verify_script of verify_fullscreen_state
VerifyScript(items) ==
    IF "Exit Full Screen" \in items THEN "fullscreen"
    ELSE IF "Enter Full Screen" \in items THEN "windowed"
    ELSE "unknown"

\* verify_fullscreen_state(expected_state)
verify_fullscreen_stateTrusting(rc_ok, items, expected_state) == TRUE

verify_fullscreen_state(rc_ok, items, expected_state) ==
    IF ~rc_ok THEN FALSE ELSE VerifyScript(items) = expected_state

\* check_script of make_window_fullscreen
MwfCheckScript(items) ==
    IF "Enter Full Screen" \in items THEN "enter"
    ELSE IF "Exit Full Screen" \in items THEN "exit"
    ELSE "none"

\* check_script of exit_fullscreen
XfCheckScript(items) ==
    IF "Exit Full Screen" \in items THEN "exit"
    ELSE IF "Enter Full Screen" \in items THEN "enter"
    ELSE "none"

\* the branch make_window_fullscreen takes on menu_state
MwfBranchToggleAlways(menu_state) ==
    IF menu_state \in {"enter", "exit"} THEN "toggle" ELSE "raise_not_found"

MwfBranch(menu_state) ==
    IF menu_state = "exit" THEN "raise_already"
    ELSE IF menu_state = "enter" THEN "toggle"
    ELSE "raise_not_found"

\* the branch exit_fullscreen takes on menu_state
XfBranch(menu_state) ==
    IF menu_state = "enter" THEN "raise_already"
    ELSE IF menu_state = "exit" THEN "toggle"
    ELSE "raise_not_found"

(***************************************************************************)
(* State.                                                                  *)
(***************************************************************************)
\* the asyncio tasks that may call into the controller
Tasks == {"t1", "t2"}
\* the task of a sequential caller
SeqTasks == {"t1"}

VARIABLES
    simState,   \* the simulator window: windowed, fullscreen or unknown
    files,      \* the temp screenshot files that exist
    pc,         \* pc[t]: the await point task t is suspended at
    calls,      \* calls[t]: invocations task t has started
    inv,        \* inv[t]: the locals and the history of t's invocation
    cached_window,  \* gesture_controller._cached_window
    sim_windows     \* the simulator's windows as an observation lists them

\* the state of the gesture controller and of what it observes
gestureVars == <<cached_window, sim_windows>>

vars == <<simState, files, pc, calls, inv, cached_window, sim_windows>>

NoPath == <<>>
NoWindow == [index |-> 0]
NoPoint == [kind |-> "none"]
NoOutcome == [kind |-> "pending", exc |-> "", msg |-> "", text |-> <<>>,
              n |-> 0, occ |-> 0]
Returned(value) == [kind |-> "return", exc |-> "", msg |-> value,
                    text |-> <<>>, n |-> 0, occ |-> 0]
Raised(exc, msg) == [kind |-> "raise", exc |-> exc, msg |-> msg,
                     text |-> <<>>, n |-> 0, occ |-> 0]
RaisedAbout(exc, msg, text, n, occ) ==
    [kind |-> "raise", exc |-> exc, msg |-> msg, text |-> text,
     n |-> n, occ |-> occ]

\* what is remembered of a caller's previous invocation: whether it was an
\* ensure_fullscreen() that returned True, or a click_text,
\* find_text_in_simulator or save_screenshot that left the window fullscreen
NoPrev == "none"
Prev(r) ==
    IF r.op = "none" THEN NoPrev
    ELSE IF r.op = "ensure_fullscreen" /\ r.outcome.kind = "return"
            /\ r.outcome.msg = "True"
    THEN "ensure_fullscreen_entered"
    ELSE IF r.op \in {"click_text", "find_text_in_simulator", "save_screenshot"}
            /\ r.end_state = "fullscreen"
    THEN "capture_left_fullscreen"
    ELSE "other"

NoInvocation ==
    [op |-> "none", text |-> <<>>, occurrence |-> 0, cont |-> "",
     menu_state |-> "", path |-> NoPath, elements |-> <<>>,
     target |-> 0, success |-> FALSE, outcome |-> NoOutcome,
     events |-> <<>>, clicks |-> <<>>, start_state |-> "",
     end_state |-> "", window |-> NoWindow, click_point |-> NoPoint,
     annotations |-> <<>>, x |-> 0, y |-> 0, coordinate_space |-> "",
     capture_state |-> "",
     prev |-> NoPrev, args |-> <<>>, result |-> NoPoint,
     center |-> NoPoint, report |-> <<>>, sequence |-> <<>>,
     posted |-> <<>>, errors |-> <<>>, last_timestamp |-> [n |-> 0, d |-> 1]]

Init ==
    /\ simState \in SimStates
    /\ files = {}
    /\ cached_window = NoWindow
    /\ sim_windows = <<>>
    /\ pc = [t \in Tasks |-> "idle"]
    /\ calls = [t \in Tasks |-> 0]
    /\ inv = [t \in Tasks |-> NoInvocation]

\* the event e is appended to the invocation's history
Log(r, e) == [r EXCEPT !.events = Append(@, e)]

\* the invocation ends with outcome out while the window is in state s
Finish(r, out, s) == [r EXCEPT !.outcome = out, !.end_state = s]

\* the finally block: unlink the screenshot if it exists
Unlink(r, fs) == IF r.path \in fs THEN Log(r, "unlink") ELSE r
AfterUnlink(r, fs) == fs \ {r.path}


(***************************************************************************)
(* Inputs.                                                                 *)
(***************************************************************************)
\* search_text=None
None == <<"<None>">>

SearchTexts == {<<"s", "e">>, <<"a">>}

Occurrences == (0 - MaxAnnotations - 1)..(MaxAnnotations + 1)

\* the operations of ocr_controller_functional that share a name with one of
\* ocr_controller carry the prefix functional_
Ops == {"click_text", "find_text_in_simulator", "make_window_fullscreen",
        "exit_fullscreen", "ensure_fullscreen", "click_text_in_simulator",
        "click_at_coordinates", "functional_click_at_coordinates",
        "save_screenshot", "functional_exit_fullscreen"}

\* device_bounds of the functional click_at_coordinates (iPhone 14 default)
DeviceWidth == 390
DeviceHeight == 844

\* the (x, y) a caller passes to click_at_coordinates
ClickCoordinates ==
    {<<0, 0>>, <<DeviceWidth \div 2, DeviceHeight \div 2>>}

\* the coordinate_space a caller passes
CoordinateSpaces == {"screen", "device", "window"}

ClickAtOps == {"click_at_coordinates", "functional_click_at_coordinates"}

CoordinateArgs(op) ==
    IF op \in ClickAtOps THEN ClickCoordinates ELSE {<<0, 0>>}

SpaceArgs(op) == IF op \in ClickAtOps THEN CoordinateSpaces ELSE {""}

\* the first await of each operation
FirstPc(op) ==
    CASE op \in {"click_text", "find_text_in_simulator",
                 "make_window_fullscreen"} -> "mwf_check"
      [] op = "exit_fullscreen" -> "xf_check"
      [] op = "ensure_fullscreen" -> "ef_check"
      [] op = "click_text_in_simulator" -> "cts_observe"
      [] op = "click_at_coordinates" -> "cac_start"
      [] op = "functional_click_at_coordinates" -> "fcac_start"
      [] op = "save_screenshot" -> "save_dirs"
      [] op = "functional_exit_fullscreen" -> "fxf_observe"

TextArgs(op) ==
    CASE op \in {"click_text", "click_text_in_simulator"} -> SearchTexts
      [] op = "find_text_in_simulator" -> SearchTexts \cup {None, <<>>}
      [] OTHER -> {<<>>}

OccurrenceArgs(op) ==
    IF op \in {"click_text", "click_text_in_simulator"} THEN Occurrences
    ELSE {0}

\* a caller invokes an operation of the controller
Call(t) ==
    /\ pc[t] \in {"idle", "done"}
    /\ calls[t] < MaxCalls
    /\ \E op \in Ops : \E text \in TextArgs(op) : \E occ \in OccurrenceArgs(op) :
       \E xy \in CoordinateArgs(op) : \E space \in SpaceArgs(op) :
          /\ inv' = [inv EXCEPT ![t] =
                        [NoInvocation EXCEPT !.op = op, !.text = text,
                                             !.occurrence = occ,
                                             !.cont = "top",
                                             !.start_state = simState,
                                             !.x = xy[1], !.y = xy[2],
                                             !.coordinate_space = space,
                                             !.prev = Prev(inv[t])]]
          /\ pc' = [pc EXCEPT ![t] = FirstPc(op)]
    /\ calls' = [calls EXCEPT ![t] = @ + 1]
    /\ UNCHANGED <<simState, files, gestureVars>>

(***************************************************************************)
(* SimulatorWindowManager.make_window_fullscreen                           *)
(***************************************************************************)
\* await of the check script, then the branch on menu_state
MwfCheck(t) ==
    /\ pc[t] = "mwf_check"
    /\ \E rc_ok \in BOOLEAN :
         LET r == Log(inv[t], "check_menu")
             menu_state == MwfCheckScript(MenuItems(simState))
             branch == MwfBranch(menu_state)
         IN  IF ~rc_ok
             THEN /\ inv' = [inv EXCEPT ![t] =
                       Finish(r, Raised("RuntimeError", "check_failed"), simState)]
                  /\ pc' = [pc EXCEPT ![t] = "done"]
             ELSE IF branch = "raise_already"
             THEN /\ inv' = [inv EXCEPT ![t] =
                       Finish([r EXCEPT !.menu_state = menu_state],
                              Raised("RuntimeError", "already_fullscreen"),
                              simState)]
                  /\ pc' = [pc EXCEPT ![t] = "done"]
             ELSE IF branch = "toggle"
             THEN /\ inv' = [inv EXCEPT ![t] = [r EXCEPT !.menu_state = menu_state]]
                  /\ pc' = [pc EXCEPT ![t] = "mwf_key"]
             ELSE /\ inv' = [inv EXCEPT ![t] =
                       Finish([r EXCEPT !.menu_state = menu_state],
                              Raised("RuntimeError", "menu_not_found"),
                              simState)]
                  /\ pc' = [pc EXCEPT ![t] = "done"]
    /\ UNCHANGED <<simState, files, calls, gestureVars>>

\* await of the keystroke script
MwfKeystroke(t) ==
    /\ pc[t] = "mwf_key"
    /\ \E rc_ok \in BOOLEAN :
         LET r == Log(inv[t], "keystroke")
         IN  IF ~rc_ok
             THEN /\ simState' = simState
                  /\ inv' = [inv EXCEPT ![t] =
                       Finish(r, Raised("RuntimeError", "enter_failed"), simState)]
                  /\ pc' = [pc EXCEPT ![t] = "done"]
             ELSE /\ simState' \in ToggleResults(simState)
                  /\ inv' = [inv EXCEPT ![t] = r]
                  /\ pc' = [pc EXCEPT ![t] = "mwf_sleep"]
    /\ UNCHANGED <<files, calls, gestureVars>>

\* await asyncio.sleep(1)
MwfSleep(t) ==
    /\ pc[t] = "mwf_sleep"
    /\ inv' = [inv EXCEPT ![t] = Log(@, "sleep")]
    /\ pc' = [pc EXCEPT ![t] = "mwf_verify"]
    /\ UNCHANGED <<simState, files, calls, gestureVars>>

\* what make_window_fullscreen does with the verification's answer
MwfVerdictTrusting(verified) == "return_true"

MwfVerdict(verified) == IF verified THEN "return_true" ELSE "raise"

\* await verify_fullscreen_state("fullscreen"), then return True or raise
MwfVerify(t) ==
    /\ pc[t] = "mwf_verify"
    /\ \E rc_ok \in BOOLEAN :
         LET verified == verify_fullscreen_state(rc_ok, MenuItems(simState),
                                                 "fullscreen")
             r == Log(inv[t], IF verified THEN "verify_true" ELSE "verify_false")
         IN  IF MwfVerdict(verified) = "raise"
             THEN /\ inv' = [inv EXCEPT ![t] =
                       Finish(r, Raised("RuntimeError", "enter_verify_failed"),
                              simState)]
                  /\ pc' = [pc EXCEPT ![t] = "done"]
             ELSE IF r.op = "make_window_fullscreen"
             THEN /\ inv' = [inv EXCEPT ![t] = Finish(r, Returned("True"), simState)]
                  /\ pc' = [pc EXCEPT ![t] = "done"]
             ELSE /\ inv' = [inv EXCEPT ![t] = r]
                  /\ pc' = [pc EXCEPT ![t] = "cap_bounds"]
    /\ UNCHANGED <<simState, files, calls, gestureVars>>

(***************************************************************************)
(* OCR: what ocrmac returns, and OCRTextFinder.find_text_elements.         *)
(***************************************************************************)
\* the normalized coordinate k / NormDen
Norm(k) == Div(QInt(k), QInt(NormDen))

\* annotations (text, confidence, [x, y, width, height]); the bounds are
\* normalized, bottom-left origin
OcrPool ==
    { [text |-> <<"S", "e">>, confidence |-> QInt(1),
       bounds |-> <<Norm(0), Norm(0), Norm(1), Norm(1)>>],
      [text |-> <<"s", "E", "t">>, confidence |-> Div(QInt(1), QInt(2)),
       bounds |-> <<Norm(1), Norm(2), Norm(2), Norm(1)>>],
      [text |-> <<"A">>, confidence |-> QInt(1),
       bounds |-> <<Norm(NormDen - 1), Norm(NormDen - 1), Norm(1), Norm(1)>>] }

\* the lists ocrmac.OCR(path).recognize() may return
AnnotationLists ==
    UNION { [1..k -> OcrPool] : k \in 0..MaxAnnotations }

\* search_text is None or search_text.lower() in text.lower()
TextMatchesCaseSensitive(search_text, text) ==
    \/ search_text = None
    \/ IsSubstring(search_text, text)

TextMatches(search_text, text) ==
    \/ search_text = None
    \/ IsSubstring(Lower(search_text), Lower(text))

\* the element find_text_elements builds for one annotation
Element(ann, img_width, img_height) ==
    LET x_norm == ann.bounds[1]
        y_norm == ann.bounds[2]
        width_norm == ann.bounds[3]
        height_norm == ann.bounds[4]
        x == Mul(x_norm, QInt(img_width))
        y == Mul(Sub(Sub(QInt(1), y_norm), height_norm), QInt(img_height))
        width == Mul(width_norm, QInt(img_width))
        height == Mul(height_norm, QInt(img_height))
    IN  [text |-> ann.text, x |-> x, y |-> y, width |-> width,
         height |-> height,
         center_x |-> Add(x, Div(width, QInt(2))),
         center_y |-> Add(y, Div(height, QInt(2))),
         confidence |-> ann.confidence]

find_text_elements(annotations, search_text, img_width, img_height) ==
    LET results[i \in 0..Len(annotations)] ==
            IF i = 0 THEN <<>>
            ELSE IF TextMatches(search_text, annotations[i].text)
                 THEN Append(results[i - 1],
                             Element(annotations[i], img_width, img_height))
                 ELSE results[i - 1]
    IN  results[Len(annotations)]

\* Python list indexing seq[i]: 0-based, negative i counts from the end;
\* the 1-based position, or 0 for IndexError
PyIndex(n, i) ==
    IF i >= 0 THEN (IF i < n THEN i + 1 ELSE 0)
    ELSE (IF -i <= n THEN n + i + 1 ELSE 0)

\* the default of the parameter is_fullscreen
IsFullscreenDefault == TRUE

\* CoordinateTransformer.screenshot_to_screen_coordinates; window_info is a
\* window with bounds (its position and size) or NoWindow
screenshot_to_screen_coordinates(screenshot_x, screenshot_y, window_info, is_fullscreen) ==
    IF is_fullscreen
    THEN [kind |-> "xy", x |-> PyInt(screenshot_x), y |-> PyInt(screenshot_y)]
    ELSE IF window_info = NoWindow
    THEN [kind |-> "ValueError", x |-> 0, y |-> 0]
    ELSE [kind |-> "xy",
          x |-> PyInt(Add(window_info.bounds.x, screenshot_x)),
          y |-> PyInt(Add(window_info.bounds.y, screenshot_y))]

\* click_text's choice among the elements: the checks and the indexing
ClickTextSelectClamped(n, occurrence) ==
    IF n = 0 THEN [kind |-> "not_found", idx |-> 0]
    ELSE IF n < occurrence THEN [kind |-> "target", idx |-> n]
    ELSE IF PyIndex(n, occurrence - 1) = 0 THEN [kind |-> "index_error", idx |-> 0]
    ELSE [kind |-> "target", idx |-> PyIndex(n, occurrence - 1)]

ClickTextSelectZeroBased(n, occurrence) ==
    IF n = 0 THEN [kind |-> "not_found", idx |-> 0]
    ELSE IF n < occurrence THEN [kind |-> "out_of_range", idx |-> 0]
    ELSE IF PyIndex(n, occurrence) = 0 THEN [kind |-> "index_error", idx |-> 0]
    ELSE [kind |-> "target", idx |-> PyIndex(n, occurrence)]

ClickTextSelect(n, occurrence) ==
    IF n = 0 THEN [kind |-> "not_found", idx |-> 0]
    ELSE IF n < occurrence THEN [kind |-> "out_of_range", idx |-> 0]
    ELSE IF PyIndex(n, occurrence - 1) = 0 THEN [kind |-> "index_error", idx |-> 0]
    ELSE [kind |-> "target", idx |-> PyIndex(n, occurrence - 1)]

(***************************************************************************)
(* SimulatorWindowManager.capture_simulator_screenshot(use_fullscreen=True)*)
(* and the callers' code up to their next await.                           *)
(***************************************************************************)
\* the invocation of task t ends inside the try block: the finally clause
\* unlinks the screenshot, then the outcome reaches the caller
EndInTry(t, r, out, s) ==
    /\ inv' = [inv EXCEPT ![t] = Finish(Unlink(r, files), out, s)]
    /\ files' = AfterUnlink(r, files)
    /\ pc' = [pc EXCEPT ![t] = "done"]

\* the invocation of task t ends outside any try block
EndPlain(t, r, out, s) ==
    /\ inv' = [inv EXCEPT ![t] = Finish(r, out, s)]
    /\ files' = files
    /\ pc' = [pc EXCEPT ![t] = "done"]

\* await of the desktop-bounds script, the parse, then NamedTemporaryFile
CaptureBounds(t) ==
    /\ pc[t] = "cap_bounds"
    /\ \E parsed \in BOOLEAN :
         LET r == Log(inv[t], "bounds")
             temp_file == <<t, calls[t]>>
         IN  IF ~parsed
             THEN EndPlain(t, r, Raised("RuntimeError", "resolution"), simState)
             ELSE /\ inv' = [inv EXCEPT ![t] =
                          Log([r EXCEPT !.path = temp_file], "mktemp")]
                  /\ files' = files \cup {temp_file}
                  /\ pc' = [pc EXCEPT ![t] = "cap_shot"]
    /\ UNCHANGED <<simState, calls, gestureVars>>

\* capture_simulator_screenshot returned None: the caller raises before its
\* try block
CaptureFailedEnd(t, r, out, s) == EndPlain(t, r, out, s)

\* click_text after the screenshot path is known, up to its next await
ClickTextAfterCapture(t, r) ==
    \/ \* find_text_elements raises (ocrmac or PIL)
       EndInTry(t, Log(r, "ocr"), Raised("Exception", "ocr_error"), simState)
    \/ \E annotations \in AnnotationLists :
         LET elements == find_text_elements(annotations, r.text, ImgW, ImgH)
             r2 == [Log(r, "ocr") EXCEPT !.elements = elements]
             sel == ClickTextSelect(Len(elements), r.occurrence)
         IN  CASE sel.kind = "not_found" ->
                    /\ inv' = [inv EXCEPT ![t] = [r2 EXCEPT !.cont = "not_found"]]
                    /\ pc' = [pc EXCEPT ![t] = "xf_check"]
                    /\ files' = files
               [] sel.kind = "out_of_range" ->
                    /\ inv' = [inv EXCEPT ![t] = [r2 EXCEPT !.cont = "out_of_range"]]
                    /\ pc' = [pc EXCEPT ![t] = "xf_check"]
                    /\ files' = files
               [] sel.kind = "index_error" ->
                    EndInTry(t, r2, Raised("IndexError", "index_error"), simState)
               [] sel.kind = "target" ->
                    /\ inv' = [inv EXCEPT ![t] = [r2 EXCEPT !.target = sel.idx]]
                    /\ pc' = [pc EXCEPT ![t] = "click"]
                    /\ files' = files

\* find_text_in_simulator after the screenshot path is known
FindTextAfterCapture(t, r) ==
    LET actual_search_text == IF r.text = <<>> THEN None ELSE r.text
    IN  \/ EndInTry(t, Log(r, "ocr"), Raised("Exception", "ocr_error"), simState)
        \/ \E annotations \in AnnotationLists :
             LET elements == find_text_elements(annotations, actual_search_text,
                                                ImgW, ImgH)
             IN  /\ inv' = [inv EXCEPT ![t] =
                        [Log(r, "ocr") EXCEPT !.elements = elements,
                                              !.cont = "find_report"]]
                 /\ pc' = [pc EXCEPT ![t] = "xf_check"]
                 /\ files' = files

\* save_screenshot after the screenshot path is known: shutil.copy2
SaveAfterCapture(t, r) ==
    \/ EndInTry(t, Log(r, "copy_failed"), Raised("OSError", "copy_failed"),
                simState)
    \/ /\ inv' = [inv EXCEPT ![t] = [Log(r, "copy") EXCEPT !.cont = "save_report"]]
       /\ pc' = [pc EXCEPT ![t] = "xf_check"]
       /\ files' = files

\* await of screencapture, the return of capture_simulator_screenshot and
\* the caller's code up to its next await
CaptureShot(t) ==
    /\ pc[t] = "cap_shot"
    /\ \E captured \in BOOLEAN :
         IF ~captured
         THEN CaptureFailedEnd(t, Log(inv[t], "screencapture_failed"),
                               Raised("RuntimeError", "capture_failed"), simState)
         ELSE LET r == [Log(inv[t], "screencapture") EXCEPT
                           !.capture_state = simState]
              IN  IF r.op = "click_text" THEN ClickTextAfterCapture(t, r)
                  ELSE IF r.op = "save_screenshot" THEN SaveAfterCapture(t, r)
                  ELSE FindTextAfterCapture(t, r)
    /\ UNCHANGED <<simState, calls, gestureVars>>

\* where click_text goes once click_at_screen_coordinates has returned
ClickNextRaisingFirst(success) == IF success THEN "exit_fullscreen" ELSE "raise"

ClickNext(success) == "exit_fullscreen"

\* await click_at_screen_coordinates(screen_x, screen_y) in click_text
Click(t) ==
    /\ pc[t] = "click"
    /\ \E rc_ok \in BOOLEAN :
         LET r == inv[t]
             target == r.elements[r.target]
             screen == screenshot_to_screen_coordinates(target.center_x,
                                                        target.center_y,
                                                        NoWindow, TRUE)
             r2 == [Log(r, "click") EXCEPT
                     !.clicks = Append(@, [x |-> screen.x, y |-> screen.y,
                                           idx |-> r.target,
                                           sim |-> simState]),
                     !.success = rc_ok, !.cont = "after_click"]
         IN  IF ClickNext(rc_ok) = "exit_fullscreen"
             THEN /\ inv' = [inv EXCEPT ![t] = r2]
                  /\ pc' = [pc EXCEPT ![t] = "xf_check"]
                  /\ files' = files
             ELSE EndInTry(t, r2, RaisedAbout("RuntimeError", "click_failed",
                                              target.text, Len(r.elements),
                                              r.occurrence), simState)
    /\ UNCHANGED <<simState, calls, gestureVars>>

(***************************************************************************)
(* SimulatorWindowManager.exit_fullscreen, called by the caller directly   *)
(* (cont = "top") or from inside the try block of click_text and           *)
(* find_text_in_simulator.                                                 *)
(***************************************************************************)
\* exit_fullscreen raises: the error reaches the caller of the operation,
\* through the finally clause when the call was made inside a try block
XfRaise(t, r, msg, s) ==
    IF r.op = "exit_fullscreen"
    THEN EndPlain(t, r, Raised("RuntimeError", msg), s)
    ELSE EndInTry(t, r, Raised("RuntimeError", msg), s)

\* how click_text ends after its click and exit_fullscreen returned
AfterClickEndIgnoring(success) == "return"

AfterClickEnd(success) == IF ~success THEN "raise" ELSE "return"

\* the numbered lines of find_text_in_simulator's report, counted from 0
FormatResultsZeroBased(elements) ==
    [i \in 1..Len(elements) |->
        [i |-> i - 1, text |-> elements[i].text,
         x |-> FormatF0(elements[i].center_x),
         y |-> FormatF0(elements[i].center_y)]]

\* the numbered lines of find_text_in_simulator's report:
\* "{i}. '{text}' at ({center_x:.0f}, {center_y:.0f})"
FormatResults(elements) ==
    [i \in 1..Len(elements) |->
        [i |-> i, text |-> elements[i].text,
         x |-> FormatF0(elements[i].center_x),
         y |-> FormatF0(elements[i].center_y)]]

\* exit_fullscreen returned True: the rest of the calling operation
XfReturn(t, r, s) ==
    CASE r.cont = "top" -> EndPlain(t, r, Returned("True"), s)
      [] r.cont = "not_found" ->
           EndInTry(t, r, RaisedAbout("RuntimeError", "not_found", r.text,
                                      Len(r.elements), r.occurrence), s)
      [] r.cont = "out_of_range" ->
           EndInTry(t, r, RaisedAbout("ValueError", "out_of_range", r.text,
                                      Len(r.elements), r.occurrence), s)
      [] r.cont = "after_click" ->
           IF AfterClickEnd(r.success) = "raise"
           THEN EndInTry(t, r, RaisedAbout("RuntimeError", "click_failed",
                                           r.elements[r.target].text,
                                           Len(r.elements), r.occurrence), s)
           ELSE EndInTry(t, r, Returned("None"), s)
      [] r.cont = "find_report" ->
           EndInTry(t, [r EXCEPT !.report = FormatResults(r.elements)],
                    Returned("report"), s)
      [] r.cont = "save_report" ->
           \* os.path.exists(filename)
           \/ EndInTry(t, r, Returned("saved"), s)
           \/ EndInTry(t, r, Raised("RuntimeError", "save_failed"), s)

\* await of the check script, then the branch on menu_state
XfCheck(t) ==
    /\ pc[t] = "xf_check"
    /\ \E rc_ok \in BOOLEAN :
         LET r == Log(inv[t], "check_menu")
             menu_state == XfCheckScript(MenuItems(simState))
             branch == XfBranch(menu_state)
             r2 == [r EXCEPT !.menu_state = menu_state]
         IN  IF ~rc_ok THEN XfRaise(t, r, "check_failed", simState)
             ELSE IF branch = "raise_already"
             THEN XfRaise(t, r2, "already_windowed", simState)
             ELSE IF branch = "toggle"
             THEN /\ inv' = [inv EXCEPT ![t] = r2]
                  /\ pc' = [pc EXCEPT ![t] = "xf_key"]
                  /\ files' = files
             ELSE XfRaise(t, r2, "menu_not_found", simState)
    /\ UNCHANGED <<simState, calls, gestureVars>>

\* await of the keystroke script
XfKeystroke(t) ==
    /\ pc[t] = "xf_key"
    /\ \E rc_ok \in BOOLEAN :
         LET r == Log(inv[t], "keystroke")
         IN  IF ~rc_ok
             THEN /\ simState' = simState
                  /\ XfRaise(t, r, "exit_failed", simState)
             ELSE /\ simState' \in ToggleResults(simState)
                  /\ inv' = [inv EXCEPT ![t] = r]
                  /\ pc' = [pc EXCEPT ![t] = "xf_sleep"]
                  /\ files' = files
    /\ UNCHANGED <<calls, gestureVars>>

\* await asyncio.sleep(1)
XfSleep(t) ==
    /\ pc[t] = "xf_sleep"
    /\ inv' = [inv EXCEPT ![t] = Log(@, "sleep")]
    /\ pc' = [pc EXCEPT ![t] = "xf_verify"]
    /\ UNCHANGED <<simState, files, calls, gestureVars>>

\* await verify_fullscreen_state("windowed"), then return True or raise
XfVerify(t) ==
    /\ pc[t] = "xf_verify"
    /\ \E rc_ok \in BOOLEAN :
         LET verified == verify_fullscreen_state(rc_ok, MenuItems(simState),
                                                 "windowed")
             r == Log(inv[t], IF verified THEN "verify_true" ELSE "verify_false")
         IN  IF verified THEN XfReturn(t, r, simState)
             ELSE XfRaise(t, r, "exit_verify_failed", simState)
    /\ UNCHANGED <<simState, calls, gestureVars>>

(***************************************************************************)
(* ocr_controller_functional: pure functions.                              *)
(***************************************************************************)
Point(x, y) == [kind |-> "point", x |-> x, y |-> y]
Rectangle(x, y, width, height) ==
    [x |-> x, y |-> y, width |-> width, height |-> height]

\* Rectangle.center
Center(rect) ==
    Point(Add(rect.x, Div(rect.width, QInt(2))),
          Add(rect.y, Div(rect.height, QInt(2))))

\* a float division by zero raises
ZeroDivisionError == [kind |-> "ZeroDivisionError"]

\* transform_coordinates scaling by the source rectangle's size
transform_coordinatesUnscaled(point, from_bounds, to_bounds) ==
    IF IsZero(from_bounds.width) \/ IsZero(from_bounds.height)
    THEN ZeroDivisionError
    ELSE LET rel_x == Div(Sub(point.x, from_bounds.x), from_bounds.width)
             rel_y == Div(Sub(point.y, from_bounds.y), from_bounds.height)
         IN  Point(Add(to_bounds.x, Mul(rel_x, from_bounds.width)),
                   Add(to_bounds.y, Mul(rel_y, from_bounds.height)))

transform_coordinates(point, from_bounds, to_bounds) ==
    IF IsZero(from_bounds.width) \/ IsZero(from_bounds.height)
    THEN ZeroDivisionError
    ELSE LET rel_x == Div(Sub(point.x, from_bounds.x), from_bounds.width)
             rel_y == Div(Sub(point.y, from_bounds.y), from_bounds.height)
         IN  Point(Add(to_bounds.x, Mul(rel_x, to_bounds.width)),
                   Add(to_bounds.y, Mul(rel_y, to_bounds.height)))

\* vision_to_pil_coordinates without the flip of y
vision_to_pil_coordinatesUnflipped(vision_point, image_height) ==
    vision_point

vision_to_pil_coordinates(vision_point, image_height) ==
    Point(vision_point.x, Sub(image_height, vision_point.y))

select_window(windows) ==
    IF windows = <<>> THEN NoWindow ELSE windows[1]

calculate_click_point(text_match, screenshot_bounds, window_bounds, image_height) ==
    LET vision_center == Center(text_match.bounds)
        pil_point == vision_to_pil_coordinates(vision_center, image_height)
    IN  transform_coordinates(pil_point, screenshot_bounds, window_bounds)

\* the TextMatch perform_ocr builds for one annotation
TextMatch(annotation, image_width, image_height) ==
    [text |-> annotation.text, confidence |-> annotation.confidence,
     bounds |-> Rectangle(
         Mul(annotation.bounds[1], QInt(image_width)),
         Mul(annotation.bounds[2], QInt(image_height)),
         Mul(annotation.bounds[3], QInt(image_width)),
         Mul(annotation.bounds[4], QInt(image_height)))]

perform_ocr(annotations, search_text, image_width, image_height) ==
    LET matches[i \in 0..Len(annotations)] ==
            IF i = 0 THEN <<>>
            ELSE IF TextMatches(search_text, annotations[i].text)
                 THEN Append(matches[i - 1],
                             TextMatch(annotations[i], image_width, image_height))
                 ELSE matches[i - 1]
    IN  matches[Len(annotations)]

\* click_text_in_simulator's choice among the matches
CtsSelect(n, occurrence) ==
    IF n = 0 THEN [kind |-> "not_found", idx |-> 0]
    ELSE IF occurrence > n THEN [kind |-> "out_of_range", idx |-> 0]
    ELSE IF PyIndex(n, occurrence - 1) = 0 THEN [kind |-> "index_error", idx |-> 0]
    ELSE [kind |-> "target", idx |-> PyIndex(n, occurrence - 1)]

(***************************************************************************)
(* ocr_controller_functional.click_text_in_simulator                       *)
(***************************************************************************)
\* the simulator windows enumerate_windows.applescript may report
SimWindow(index, x, y) ==
    [index |-> index,
     bounds |-> Rectangle(QInt(x), QInt(y), QInt(ImgW), QInt(ImgH)),
     title |-> <<"s">>]

SimWindowLists ==
    {<<>>, <<SimWindow(1, 0, 0)>>, <<SimWindow(1, 2, 3), SimWindow(2, 0, 0)>>}

\* await observe_simulator(), select_window, then NamedTemporaryFile
CtsObserve(t) ==
    /\ pc[t] = "cts_observe"
    /\ \E rc_ok \in BOOLEAN : \E windows \in SimWindowLists :
         LET r == Log(inv[t], "observe")
             window == select_window(windows)
             temp_file == <<t, calls[t]>>
         IN  IF ~rc_ok
             THEN EndPlain(t, r, Raised("RuntimeError", "osascript_failed"),
                           simState)
             ELSE IF window = NoWindow
             THEN EndPlain(t, r, Raised("RuntimeError", "no_windows"), simState)
             ELSE /\ inv' = [inv EXCEPT ![t] =
                        Log([r EXCEPT !.window = window, !.path = temp_file],
                            "mktemp")]
                  /\ files' = files \cup {temp_file}
                  /\ pc' = [pc EXCEPT ![t] = "cts_shot"]
    /\ UNCHANGED <<simState, calls, gestureVars>>

\* await execute_screenshot, then perform_ocr, the checks and the click point
CtsShot(t) ==
    /\ pc[t] = "cts_shot"
    /\ \/ EndInTry(t, Log(inv[t], "screencapture_failed"),
                   Raised("RuntimeError", "screenshot_failed"), simState)
       \/ EndInTry(t, Log(Log(inv[t], "screencapture"), "ocr"),
                   Raised("Exception", "ocr_error"), simState)
       \/ \E annotations \in AnnotationLists :
            LET r == Log(Log(inv[t], "screencapture"), "ocr")
                matches == perform_ocr(annotations, r.text, ImgW, ImgH)
                r2 == [r EXCEPT !.elements = matches]
                sel == CtsSelect(Len(matches), r.occurrence)
                screenshot_pixel_bounds ==
                    Rectangle(QInt(0), QInt(0), QInt(ImgW), QInt(ImgH))
                click_point ==
                    calculate_click_point(matches[sel.idx],
                                          screenshot_pixel_bounds,
                                          r.window.bounds, QInt(ImgH))
            IN  CASE sel.kind = "not_found" ->
                       EndInTry(t, r2, RaisedAbout("ValueError", "not_found",
                                    r.text, Len(matches), r.occurrence), simState)
                  [] sel.kind = "out_of_range" ->
                       EndInTry(t, r2, RaisedAbout("ValueError", "out_of_range",
                                    r.text, Len(matches), r.occurrence), simState)
                  [] sel.kind = "index_error" ->
                       EndInTry(t, r2, Raised("IndexError", "index_error"),
                                simState)
                  [] sel.kind = "target" ->
                       IF click_point = ZeroDivisionError
                       THEN EndInTry(t, r2, Raised("ZeroDivisionError",
                                                   "division_by_zero"), simState)
                       ELSE /\ inv' = [inv EXCEPT ![t] =
                                  [r2 EXCEPT !.target = sel.idx,
                                             !.click_point = click_point]]
                            /\ pc' = [pc EXCEPT ![t] = "cts_click"]
                            /\ files' = files
    /\ UNCHANGED <<simState, calls, gestureVars>>

\* await execute_click(click_action), then the finally clause
CtsClick(t) ==
    /\ pc[t] = "cts_click"
    /\ \E rc_ok \in BOOLEAN :
         LET r == inv[t]
             r2 == [Log(r, "click") EXCEPT
                      !.clicks = Append(@, [x |-> PyInt(r.click_point.x),
                                            y |-> PyInt(r.click_point.y),
                                            idx |-> r.target,
                                            sim |-> simState]),
                      !.success = rc_ok]
         IN  IF rc_ok THEN EndInTry(t, r2, Returned("None"), simState)
             ELSE EndInTry(t, r2, Raised("RuntimeError", "osascript_failed"),
                           simState)
    /\ UNCHANGED <<simState, calls, gestureVars>>

(***************************************************************************)
(* ocr_controller_functional.ensure_fullscreen                             *)
(***************************************************************************)
\* the is_fullscreen of the SimulatorObservation observe_simulator builds
ObservedIsFullscreen == FALSE

\* the menu items the stdout of check_fullscreen_menu.applescript names
CheckFullscreenMenuStdout(state) == MenuItems(state)

\* is_fullscreen = "Exit Full Screen" in result.stdout
EfIsFullscreenNever(items) == FALSE

EfIsFullscreen(items) == "Exit Full Screen" \in items

\* await of check_fullscreen_menu.applescript, then the test of the menu
EfCheck(t) ==
    /\ pc[t] = "ef_check"
    /\ \E rc_ok \in BOOLEAN :
         LET r == Log(inv[t], "check_menu")
         IN  IF ~rc_ok
             THEN EndPlain(t, r, Raised("RuntimeError", "read_menu_failed"),
                           simState)
             ELSE IF EfIsFullscreen(CheckFullscreenMenuStdout(simState))
             THEN EndPlain(t, r, Returned("False"), simState)
             ELSE /\ inv' = [inv EXCEPT ![t] = r]
                  /\ pc' = [pc EXCEPT ![t] = "ef_toggle"]
                  /\ files' = files
    /\ UNCHANGED <<simState, calls, gestureVars>>

\* await of toggle_fullscreen.applescript
EfToggle(t) ==
    /\ pc[t] = "ef_toggle"
    /\ \E rc_ok \in BOOLEAN :
         LET r == Log(inv[t], "keystroke")
         IN  IF ~rc_ok
             THEN /\ simState' = simState
                  /\ EndPlain(t, r, Raised("RuntimeError", "osascript_failed"),
                              simState)
             ELSE /\ simState' \in ToggleResults(simState)
                  /\ inv' = [inv EXCEPT ![t] = r]
                  /\ pc' = [pc EXCEPT ![t] = "ef_sleep"]
                  /\ files' = files
    /\ UNCHANGED <<calls, gestureVars>>

\* await asyncio.sleep(2.0)
EfSleep(t) ==
    /\ pc[t] = "ef_sleep"
    /\ inv' = [inv EXCEPT ![t] = Log(@, "sleep")]
    /\ pc' = [pc EXCEPT ![t] = "ef_verify"]
    /\ UNCHANGED <<simState, files, calls, gestureVars>>

\* await of check_fullscreen_menu.applescript again, then return or raise
EfVerify(t) ==
    /\ pc[t] = "ef_verify"
    /\ \E rc_ok \in BOOLEAN :
         LET new_is_fullscreen == EfIsFullscreen(CheckFullscreenMenuStdout(simState))
             r == Log(inv[t], IF rc_ok /\ new_is_fullscreen THEN "verify_true"
                              ELSE "verify_false")
         IN  IF r.op = "functional_exit_fullscreen"
             THEN \* new_observation = await observe_simulator()
                  IF ~rc_ok
                  THEN EndPlain(t, r, Raised("RuntimeError", "osascript_failed"),
                                simState)
                  ELSE IF ObservedIsFullscreen
                  THEN EndPlain(t, r, Raised("RuntimeError", "exit_failed"),
                                simState)
                  ELSE EndPlain(t, r, Returned("None"), simState)
             ELSE IF ~rc_ok
             THEN EndPlain(t, r, Raised("RuntimeError", "verify_menu_failed"),
                           simState)
             ELSE IF ~new_is_fullscreen
             THEN EndPlain(t, r, Raised("RuntimeError", "enter_failed"), simState)
             ELSE EndPlain(t, r, Returned("True"), simState)
    /\ UNCHANGED <<simState, calls, gestureVars>>

(***************************************************************************)
(* SimulatorInteractionController.click_at_coordinates                     *)
(***************************************************************************)
\* the branch on coordinate_space
CacBranchLenient(coordinate_space) ==
    IF coordinate_space = "device" THEN "device" ELSE "screen"

CacBranch(coordinate_space) ==
    IF coordinate_space = "screen" THEN "screen"
    ELSE IF coordinate_space = "device" THEN "device"
    ELSE "invalid"

\* the code before the first await
CacStart(t) ==
    /\ pc[t] = "cac_start"
    /\ LET r == inv[t]
           branch == CacBranch(r.coordinate_space)
       IN  CASE branch = "screen" ->
                  /\ inv' = [inv EXCEPT ![t] =
                        [r EXCEPT !.click_point = Point(QInt(r.x), QInt(r.y))]]
                  /\ pc' = [pc EXCEPT ![t] = "cac_click"]
                  /\ files' = files
             [] branch = "device" ->
                  /\ inv' = inv
                  /\ pc' = [pc EXCEPT ![t] = "cac_windows"]
                  /\ files' = files
             [] OTHER ->
                  EndPlain(t, r, Raised("ValueError", "invalid_space"), simState)
    /\ UNCHANGED <<simState, calls, gestureVars>>

\* await get_simulator_windows(), then the conversion of (x, y)
CacWindows(t) ==
    /\ pc[t] = "cac_windows"
    /\ \E rc_ok \in BOOLEAN : \E windows \in SimWindowLists :
         LET r == Log(inv[t], "windows")
             window == windows[1]
             screen == screenshot_to_screen_coordinates(
                           QInt(r.x), QInt(r.y), window, IsFullscreenDefault)
         IN  IF ~rc_ok
             THEN EndPlain(t, r, Raised("RuntimeError", "get_windows_failed"),
                           simState)
             ELSE IF windows = <<>>
             THEN EndPlain(t, r, Raised("RuntimeError", "no_windows"), simState)
             ELSE /\ inv' = [inv EXCEPT ![t] =
                        [r EXCEPT !.window = window,
                                  !.click_point = Point(QInt(screen.x),
                                                        QInt(screen.y))]]
                  /\ pc' = [pc EXCEPT ![t] = "cac_click"]
                  /\ files' = files
    /\ UNCHANGED <<simState, calls, gestureVars>>

\* await click_at_screen_coordinates, then return or raise
CacClick(t) ==
    /\ pc[t] = "cac_click"
    /\ \E rc_ok \in BOOLEAN :
         LET r == inv[t]
             r2 == [Log(r, "click") EXCEPT
                      !.clicks = Append(@, [x |-> PyInt(r.click_point.x),
                                            y |-> PyInt(r.click_point.y),
                                            idx |-> 0, sim |-> simState]),
                      !.success = rc_ok]
         IN  IF rc_ok THEN EndPlain(t, r2, Returned("None"), simState)
             ELSE EndPlain(t, r2, Raised("RuntimeError", "click_failed"),
                           simState)
    /\ UNCHANGED <<simState, calls, gestureVars>>

(***************************************************************************)
(* ocr_controller_functional.click_at_coordinates                          *)
(***************************************************************************)
FunctionalCacBranch(coordinate_space) ==
    IF coordinate_space = "screen" THEN "screen"
    ELSE IF coordinate_space = "device" THEN "device"
    ELSE "invalid"

device_bounds ==
    Rectangle(QInt(0), QInt(0), QInt(DeviceWidth), QInt(DeviceHeight))

\* observation.active_window
ActiveWindow(windows) == IF windows = <<>> THEN NoWindow ELSE windows[1]

\* the code before the first await
FcacStart(t) ==
    /\ pc[t] = "fcac_start"
    /\ LET r == inv[t]
           branch == FunctionalCacBranch(r.coordinate_space)
       IN  CASE branch = "screen" ->
                  /\ inv' = [inv EXCEPT ![t] =
                        [r EXCEPT !.click_point = Point(QInt(r.x), QInt(r.y))]]
                  /\ pc' = [pc EXCEPT ![t] = "fcac_click"]
                  /\ files' = files
             [] branch = "device" ->
                  /\ inv' = inv
                  /\ pc' = [pc EXCEPT ![t] = "fcac_observe"]
                  /\ files' = files
             [] OTHER ->
                  EndPlain(t, r, Raised("ValueError", "invalid_space"), simState)
    /\ UNCHANGED <<simState, calls, gestureVars>>

\* await observe_simulator(), then transform_coordinates
FcacObserve(t) ==
    /\ pc[t] = "fcac_observe"
    /\ \E rc_ok \in BOOLEAN : \E windows \in SimWindowLists :
         LET r == Log(inv[t], "windows")
             active_window == ActiveWindow(windows)
             screen_point ==
                 transform_coordinates(Point(QInt(r.x), QInt(r.y)),
                                       device_bounds, active_window.bounds)
         IN  IF ~rc_ok
             THEN EndPlain(t, r, Raised("RuntimeError", "osascript_failed"),
                           simState)
             ELSE IF active_window = NoWindow
             THEN EndPlain(t, r, Raised("RuntimeError", "no_windows"), simState)
             ELSE /\ inv' = [inv EXCEPT ![t] =
                        [r EXCEPT !.window = active_window,
                                  !.click_point = screen_point]]
                  /\ pc' = [pc EXCEPT ![t] = "fcac_click"]
                  /\ files' = files
    /\ UNCHANGED <<simState, calls, gestureVars>>

\* await execute_click(click_action)
FcacClick(t) ==
    /\ pc[t] = "fcac_click"
    /\ \E rc_ok \in BOOLEAN :
         LET r == inv[t]
             r2 == [Log(r, "click") EXCEPT
                      !.clicks = Append(@, [x |-> PyInt(r.click_point.x),
                                            y |-> PyInt(r.click_point.y),
                                            idx |-> 0, sim |-> simState]),
                      !.success = rc_ok]
         IN  IF rc_ok THEN EndPlain(t, r2, Returned("None"), simState)
             ELSE EndPlain(t, r2, Raised("RuntimeError", "osascript_failed"),
                           simState)
    /\ UNCHANGED <<simState, calls, gestureVars>>

(***************************************************************************)
(* SimulatorInteractionController.save_screenshot: the code before the     *)
(* capture (the rest is the capture, SaveAfterCapture and exit_fullscreen) *)
(***************************************************************************)
SaveDirs(t) ==
    /\ pc[t] = "save_dirs"
    /\ \E directory \in {"ok", "makedirs_failed", "not_writable"} :
         IF directory = "ok"
         THEN /\ inv' = inv
              /\ pc' = [pc EXCEPT ![t] = "mwf_check"]
              /\ files' = files
         ELSE EndPlain(t, inv[t], Raised("OSError", directory), simState)
    /\ UNCHANGED <<simState, calls, gestureVars>>

(***************************************************************************)
(* ocr_controller_functional.exit_fullscreen                               *)
(***************************************************************************)
\* await observe_simulator(), then the test of observation.is_fullscreen
FxfObserve(t) ==
    /\ pc[t] = "fxf_observe"
    /\ \E rc_ok \in BOOLEAN :
         LET r == Log(inv[t], "observe")
         IN  IF ~rc_ok
             THEN EndPlain(t, r, Raised("RuntimeError", "osascript_failed"),
                           simState)
             ELSE IF ~ObservedIsFullscreen
             THEN EndPlain(t, r, Returned("None"), simState)
             ELSE /\ inv' = [inv EXCEPT ![t] = r]
                  /\ pc' = [pc EXCEPT ![t] = "ef_toggle"]
                  /\ files' = files
    /\ UNCHANGED <<simState, calls, gestureVars>>

(***************************************************************************)
(* The specification of a sequential caller.                               *)
(***************************************************************************)
Step(t) ==
    \/ Call(t)
    \/ MwfCheck(t) \/ MwfKeystroke(t) \/ MwfSleep(t) \/ MwfVerify(t)
    \/ CaptureBounds(t) \/ CaptureShot(t) \/ Click(t)
    \/ XfCheck(t) \/ XfKeystroke(t) \/ XfSleep(t) \/ XfVerify(t)
    \/ CtsObserve(t) \/ CtsShot(t) \/ CtsClick(t)
    \/ EfCheck(t) \/ EfToggle(t) \/ EfSleep(t) \/ EfVerify(t)
    \/ CacStart(t) \/ CacWindows(t) \/ CacClick(t)
    \/ FcacStart(t) \/ FcacObserve(t) \/ FcacClick(t)
    \/ SaveDirs(t) \/ FxfObserve(t)

Next == \E t \in SeqTasks : Step(t)

Spec == Init /\ [][Next]_vars

(***************************************************************************)
(* Two callers whose click_text invocations interleave at their awaits,    *)
(* with nothing serializing them.                                          *)
(***************************************************************************)
\* invocations each of the concurrent tasks starts
MaxConcurrentCalls == 1

\* a task calls click_text(text), occurrence left at its default
ConcurrentCall(t) ==
    /\ pc[t] \in {"idle", "done"}
    /\ calls[t] < MaxConcurrentCalls
    /\ \E text \in SearchTexts :
          inv' = [inv EXCEPT ![t] =
                     [NoInvocation EXCEPT !.op = "click_text", !.text = text,
                                          !.occurrence = 1, !.cont = "top",
                                          !.start_state = simState,
                                          !.prev = Prev(inv[t])]]
    /\ pc' = [pc EXCEPT ![t] = "mwf_check"]
    /\ calls' = [calls EXCEPT ![t] = @ + 1]
    /\ UNCHANGED <<simState, files, gestureVars>>

ConcurrentStep(t) ==
    \/ ConcurrentCall(t)
    \/ MwfCheck(t) \/ MwfKeystroke(t) \/ MwfSleep(t) \/ MwfVerify(t)
    \/ CaptureBounds(t) \/ CaptureShot(t) \/ Click(t)
    \/ XfCheck(t) \/ XfKeystroke(t) \/ XfSleep(t) \/ XfVerify(t)

ConcurrentNext == \E t \in Tasks : ConcurrentStep(t)

ConcurrentSpec == Init /\ [][ConcurrentNext]_vars

(***************************************************************************)
(* The OCR locators as pure functions: find_text_elements and perform_ocr  *)
(* applied to a list of annotations and a search text.                     *)
(***************************************************************************)
Locators == {"find_text_elements", "perform_ocr"}

OcrInit ==
    /\ simState = "windowed"
    /\ files = {}
    /\ cached_window = NoWindow
    /\ sim_windows = <<>>
    /\ calls = [t \in Tasks |-> 0]
    /\ pc = [t \in Tasks |-> IF t \in SeqTasks THEN "ocr_ready" ELSE "idle"]
    /\ \E locator \in Locators : \E annotations \in AnnotationLists :
       \E search_text \in SearchTexts \cup {None, <<>>} :
          inv = [t \in Tasks |->
                    IF t \in SeqTasks
                    THEN [NoInvocation EXCEPT !.op = locator,
                                              !.text = search_text,
                                              !.annotations = annotations]
                    ELSE NoInvocation]

FindTextElementsCall(t) ==
    /\ pc[t] = "ocr_ready"
    /\ inv[t].op = "find_text_elements"
    /\ LET r == inv[t]
           results == find_text_elements(r.annotations, r.text, ImgW, ImgH)
       IN  inv' = [inv EXCEPT ![t] =
                     Finish([Log(r, "ocr") EXCEPT !.elements = results],
                            Returned("results"), simState)]
    /\ pc' = [pc EXCEPT ![t] = "done"]
    /\ UNCHANGED <<simState, files, calls, gestureVars>>

PerformOcrCall(t) ==
    /\ pc[t] = "ocr_ready"
    /\ inv[t].op = "perform_ocr"
    /\ LET r == inv[t]
           matches == perform_ocr(r.annotations, r.text, ImgW, ImgH)
       IN  inv' = [inv EXCEPT ![t] =
                     Finish([Log(r, "ocr") EXCEPT !.elements = matches],
                            Returned("matches"), simState)]
    /\ pc' = [pc EXCEPT ![t] = "done"]
    /\ UNCHANGED <<simState, files, calls, gestureVars>>

OcrNext == \E t \in SeqTasks : FindTextElementsCall(t) \/ PerformOcrCall(t)

OcrSpec == OcrInit /\ [][OcrNext]_vars

(***************************************************************************)
(* The coordinate functions called on their own: transform_coordinates on  *)
(* a point and two rectangles, and the click target the two pipelines      *)
(* derive from one OCR box.                                                *)
(***************************************************************************)
\* OCR boxes of the click targets are multiples of 1/BoxDen
BoxDen == 20

GeoCoords == {0, 15, 29, 61}
GeoOrigins == {0, 10}
GeoSizes == {0, 7, 11}
GeoPoints == {Point(QInt(x), QInt(y)) : x \in GeoCoords, y \in GeoCoords}
GeoRects ==
    {Rectangle(QInt(o), QInt(0), QInt(w), QInt(h)) :
        o \in GeoOrigins, w \in GeoSizes, h \in GeoSizes}

\* image sizes in pixels
GeoImages == {<<ImgW, ImgH>>, <<DeviceWidth, DeviceHeight>>}
\* normalized boxes [x, y, width, height] inside the unit square
GeoBoxes ==
    {<<Div(QInt(x), QInt(BoxDen)), Div(QInt(y), QInt(BoxDen)),
       Div(QInt(w), QInt(BoxDen)), Div(QInt(h), QInt(BoxDen))>> :
        x \in {0, 1}, w \in {0, 2}, y \in 0..BoxDen,
        h \in {k \in 0..BoxDen : k % 2 = 0}}

GeoInit ==
    /\ simState = "windowed"
    /\ files = {}
    /\ cached_window = NoWindow
    /\ sim_windows = <<>>
    /\ calls = [t \in Tasks |-> 0]
    /\ pc = [t \in Tasks |-> IF t \in SeqTasks THEN "geo_ready" ELSE "idle"]
    /\ \/ \E point \in GeoPoints : \E from_bounds \in GeoRects :
          \E to_bounds \in GeoRects :
             inv = [t \in Tasks |->
                       IF t \in SeqTasks
                       THEN [NoInvocation EXCEPT
                                !.op = "transform_coordinates",
                                !.args = [point |-> point,
                                          from_bounds |-> from_bounds,
                                          to_bounds |-> to_bounds]]
                       ELSE NoInvocation]
       \/ \E box \in GeoBoxes : \E image \in GeoImages :
             /\ Cmp(Add(box[2], box[4]), QInt(1)) <= 0
             /\ inv = [t \in Tasks |->
                          IF t \in SeqTasks
                          THEN [NoInvocation EXCEPT
                                   !.op = "click_target",
                                   !.args = [annotation |->
                                                [text |-> <<"A">>,
                                                 confidence |-> QInt(1),
                                                 bounds |-> box],
                                             image_width |-> image[1],
                                             image_height |-> image[2]]]
                          ELSE NoInvocation]

TransformCoordinatesCall(t) ==
    /\ pc[t] = "geo_ready"
    /\ inv[t].op = "transform_coordinates"
    /\ LET r == inv[t]
           new == transform_coordinates(r.args.point, r.args.from_bounds,
                                        r.args.to_bounds)
       IN  inv' = [inv EXCEPT ![t] =
                     IF new = ZeroDivisionError
                     THEN Finish(Log(r, "transform"),
                                 Raised("ZeroDivisionError", ""), simState)
                     ELSE Finish([Log(r, "transform") EXCEPT !.result = new],
                                 Returned("point"), simState)]
    /\ pc' = [pc EXCEPT ![t] = "done"]
    /\ UNCHANGED <<simState, files, calls, gestureVars>>

\* the center click_text takes from find_text_elements' element
FindTextElementsCenter(t) ==
    /\ pc[t] = "geo_ready"
    /\ inv[t].op = "click_target"
    /\ LET r == inv[t]
           elements == find_text_elements(<<r.args.annotation>>, None,
                                          r.args.image_width,
                                          r.args.image_height)
       IN  inv' = [inv EXCEPT ![t] =
                     [Log(r, "ocr") EXCEPT
                         !.elements = elements,
                         !.center = Point(elements[1].center_x,
                                          elements[1].center_y)]]
    /\ pc' = [pc EXCEPT ![t] = "geo_center"]
    /\ UNCHANGED <<simState, files, calls, gestureVars>>

\* the point click_text_in_simulator derives for the same annotation: the
\* screenshot rectangle is the whole image, and so is the target rectangle
CalculateClickPointCall(t) ==
    /\ pc[t] = "geo_center"
    /\ LET r == inv[t]
           image_width == r.args.image_width
           image_height == r.args.image_height
           matches == perform_ocr(<<r.args.annotation>>, None,
                                  image_width, image_height)
           screenshot_pixel_bounds ==
               Rectangle(QInt(0), QInt(0), QInt(image_width), QInt(image_height))
           screen_point ==
               calculate_click_point(matches[1], screenshot_pixel_bounds,
                                     screenshot_pixel_bounds,
                                     QInt(image_height))
       IN  inv' = [inv EXCEPT ![t] =
                     Finish([Log(r, "calculate_click_point") EXCEPT
                                !.result = screen_point],
                            Returned("point"), simState)]
    /\ pc' = [pc EXCEPT ![t] = "done"]
    /\ UNCHANGED <<simState, files, calls, gestureVars>>

GeoNext ==
    \E t \in SeqTasks :
        \/ TransformCoordinatesCall(t)
        \/ FindTextElementsCenter(t)
        \/ CalculateClickPointCall(t)

GeometrySpec == GeoInit /\ [][GeoNext]_vars

(***************************************************************************)
(* gesture_controller.py: gestures, the mouse events generated for them,   *)
(* posting them, and the cached simulator window.                          *)
(***************************************************************************)
\* invocations of the gesture controller a task starts one after the other
MaxGestureCalls == 3
\* the largest tap_count and the largest steps of the gestures
MaxTapCount == 3
MaxSteps == 11

\* the float literal 0.1
DEFAULT_TAP_DURATION == Div(QInt(1), QInt(10))
\* the float literal 0.3
DEFAULT_SWIPE_DURATION == Div(QInt(3), QInt(10))

GesturePoint(x, y) == [x |-> x, y |-> y, pressure |-> QInt(1)]
TapGesture(point, duration, tap_count) ==
    [type |-> "TapGesture", point |-> point, duration |-> duration,
     tap_count |-> tap_count]
SwipeGesture(start, end, duration, steps) ==
    [type |-> "SwipeGesture", start |-> start, end |-> end,
     duration |-> duration, steps |-> steps]
MouseEvent(event_type, x, y, timestamp_offset) ==
    [event_type |-> event_type, x |-> x, y |-> y,
     button |-> "kCGMouseButtonLeft", timestamp_offset |-> timestamp_offset]

create_tap(x, y, tap_count) ==
    TapGesture(GesturePoint(x, y), DEFAULT_TAP_DURATION, tap_count)

\* start + (end - start) * t
Interpolated(start, end, t) == Add(start, Mul(Sub(end, start), t))
InterpolatedPoint(start, end, t) ==
    [x |-> Interpolated(start.x, end.x, t),
     y |-> Interpolated(start.y, end.y, t),
     pressure |-> Interpolated(start.pressure, end.pressure, t)]

\* interpolate_points without its loop
interpolate_pointsEndpointsOnly(start, end, steps) == <<start, end>>

interpolate_points(start, end, steps) ==
    IF steps <= 1 THEN <<start, end>>
    ELSE [k \in 1..(steps + 1) |->
            InterpolatedPoint(start, end, Div(QInt(k - 1), QInt(steps)))]

mouse_down(x, y, timestamp_offset) ==
    MouseEvent("kCGEventLeftMouseDown", x, y, timestamp_offset)
\* a mouse_up that presses the button
mouse_upPressing(x, y, timestamp_offset) ==
    MouseEvent("kCGEventLeftMouseDown", x, y, timestamp_offset)

mouse_up(x, y, timestamp_offset) ==
    MouseEvent("kCGEventLeftMouseUp", x, y, timestamp_offset)

\* the events of a tap: a down/up pair for each i in range(tap_count)
TapEvent(gesture, k, tap_offset) ==
    IF k % 2 = 1
    THEN mouse_down(gesture.point.x, gesture.point.y, tap_offset)
    ELSE mouse_up(gesture.point.x, gesture.point.y,
                  Add(tap_offset, gesture.duration))
TapEvents(gesture) ==
    [k \in 1..(2 * (IF gesture.tap_count > 0 THEN gesture.tap_count ELSE 0)) |->
        TapEvent(gesture, k,
                 Mul(QInt((k - 1) \div 2),
                     Add(gesture.duration, Div(QInt(1), QInt(10)))))]

\* the events of a swipe: down, drags, up; steps = 0 divides by zero
SwipeSequence(gesture, points, time_per_step) ==
    <<mouse_down(gesture.start.x, gesture.start.y, QInt(0))>>
    \o [i \in 1..(Len(points) - 1) |->
           MouseEvent("kCGEventLeftMouseDragged",
                      points[i + 1].x, points[i + 1].y,
                      Mul(QInt(i), time_per_step))]
    \o <<mouse_up(gesture.end.x, gesture.end.y, gesture.duration)>>
SwipeEvents(gesture) ==
    IF gesture.steps = 0 THEN ZeroDivisionError
    ELSE SwipeSequence(gesture,
                       interpolate_points(gesture.start, gesture.end, gesture.steps),
                       Div(gesture.duration, QInt(gesture.steps)))

\* the tuple of events, or the exception raised
generate_events(gesture) ==
    IF gesture.type = "TapGesture" THEN TapEvents(gesture)
    ELSE IF gesture.type = "SwipeGesture" THEN SwipeEvents(gesture)
    ELSE [kind |-> "ValueError"]

\* the gestures generate_events is called with
TapGestures ==
    {TapGesture(GesturePoint(QInt(10), QInt(20)), DEFAULT_TAP_DURATION, n) :
        n \in 0..MaxTapCount}
SwipeDurations ==
    {DEFAULT_TAP_DURATION, DEFAULT_SWIPE_DURATION, Div(QInt(1), QInt(2))}
SwipeGestures ==
    {SwipeGesture(GesturePoint(QInt(10), QInt(300)), GesturePoint(QInt(10), end_y),
                  duration, steps) :
        end_y \in {QInt(100), QInt(400)}, duration \in SwipeDurations,
        steps \in 0..MaxSteps}
Gestures == TapGestures \cup SwipeGestures
\* the gestures perform_gesture is called with
ShortGestures ==
    {g \in Gestures :
        \/ g.type = "TapGesture" /\ g.tap_count <= 2
        \/ g.type = "SwipeGesture" /\ g.steps <= 1 /\ g.end.y = QInt(100)
                                   /\ g.duration = DEFAULT_SWIPE_DURATION}

GestureOps ==
    {"generate_events", "perform_gesture", "get_simulator_window", "tap_at"}

GestureArgs(op) ==
    CASE op = "generate_events" -> {[gesture |-> g] : g \in Gestures}
      [] op = "perform_gesture" -> {[gesture |-> g] : g \in ShortGestures}
      [] op = "get_simulator_window" -> {[cached |-> NoWindow]}
      [] op = "tap_at" ->
           {[x |-> QInt(1), y |-> QInt(2), tap_count |-> n, cached |-> NoWindow] :
               n \in 1..2}

GestureFirstPc(op) ==
    CASE op = "generate_events" -> "ge_call"
      [] op = "perform_gesture" -> "pg_start"
      [] op = "get_simulator_window" -> "gsw_enter"
      [] op = "tap_at" -> "tap_focus"

GestureInit ==
    /\ simState = "windowed"
    /\ files = {}
    /\ pc = [t \in Tasks |-> "idle"]
    /\ calls = [t \in Tasks |-> 0]
    /\ inv = [t \in Tasks |-> NoInvocation]
    /\ cached_window = NoWindow
    /\ sim_windows \in SimWindowLists

GestureCall(t) ==
    /\ pc[t] \in {"idle", "done"}
    /\ calls[t] < MaxGestureCalls
    /\ \E op \in GestureOps : \E args \in GestureArgs(op) :
          /\ inv' = [inv EXCEPT ![t] =
                        [NoInvocation EXCEPT !.op = op, !.args = args,
                                             !.cont = "top",
                                             !.prev = Prev(inv[t])]]
          /\ pc' = [pc EXCEPT ![t] = GestureFirstPc(op)]
    /\ calls' = [calls EXCEPT ![t] = @ + 1]
    /\ UNCHANGED <<simState, files, gestureVars>>

\* the simulator window is moved, resized, closed or opened
WindowChange ==
    /\ \E windows \in SimWindowLists \ {sim_windows} : sim_windows' = windows
    /\ UNCHANGED <<simState, files, pc, calls, inv, cached_window>>

\* the invocation r once generate_events gave events
Generated(r, events, s) ==
    IF events = ZeroDivisionError
    THEN Finish(r, Raised("ZeroDivisionError", ""), s)
    ELSE Finish([r EXCEPT !.sequence = events], Returned("events"), s)

GenerateEventsCall(t) ==
    /\ pc[t] = "ge_call"
    /\ inv' = [inv EXCEPT ![t] =
                 Generated(Log(inv[t], "generate_events"),
                           generate_events(inv[t].args.gesture), simState)]
    /\ pc' = [pc EXCEPT ![t] = "done"]
    /\ UNCHANGED <<simState, files, calls, gestureVars>>

\* perform_gesture from its call to its first await, or to its end when it
\* has nothing to post
PerformGestureEvents(t, r, events) ==
    IF events = ZeroDivisionError
    THEN /\ inv' = [inv EXCEPT ![t] =
              Finish(r, Raised("ZeroDivisionError", ""), simState)]
         /\ pc' = [pc EXCEPT ![t] = "done"]
    ELSE IF events = <<>>
    THEN /\ inv' = [inv EXCEPT ![t] = Finish(r, Returned("None"), simState)]
         /\ pc' = [pc EXCEPT ![t] = "done"]
    ELSE /\ inv' = [inv EXCEPT ![t] = [r EXCEPT !.sequence = events]]
         /\ pc' = [pc EXCEPT ![t] = "pg_event"]
PerformGestureBegin(t, r, gesture) ==
    PerformGestureEvents(t, Log(r, "generate_events"), generate_events(gesture))

PgStart(t) ==
    /\ pc[t] = "pg_start"
    /\ PerformGestureBegin(t, inv[t], inv[t].args.gesture)
    /\ UNCHANGED <<simState, files, calls, gestureVars>>

\* the event the loop of perform_gesture is at
PgEvent(r) == r.sequence[Len(r.posted) + 1]
PgMustWait(r) == Cmp(PgEvent(r).timestamp_offset, r.last_timestamp) > 0

\* await asyncio.sleep(wait_time)
PgSleep(t) ==
    /\ pc[t] = "pg_event"
    /\ PgMustWait(inv[t])
    /\ inv' = [inv EXCEPT ![t] =
                 [Log(@, "sleep") EXCEPT
                     !.last_timestamp = PgEvent(inv[t]).timestamp_offset]]
    /\ pc' = [pc EXCEPT ![t] = "pg_post"]
    /\ UNCHANGED <<simState, files, calls, gestureVars>>

\* what perform_gesture does once the loop is over
PgEndRaising(errors) == "raise"

PgEnd(errors) == IF errors # <<>> THEN "raise" ELSE "return"

\* await post_mouse_event(event): CommandResult(success) or, when Quartz
\* raised, CommandResult(success=False); then the rest of the loop body
PgPost(t) ==
    /\ \/ pc[t] = "pg_post"
       \/ pc[t] = "pg_event" /\ ~PgMustWait(inv[t])
    /\ \E success \in BOOLEAN :
         LET r == inv[t]
             event == PgEvent(r)
             errors == IF success THEN r.errors
                       ELSE Append(r.errors, event.timestamp_offset)
             r2 == [Log(r, "post") EXCEPT
                      !.posted = Append(@, [event |-> event, success |-> success]),
                      !.errors = errors]
         IN  IF Len(r2.posted) < Len(r.sequence)
             THEN /\ inv' = [inv EXCEPT ![t] = r2]
                  /\ pc' = [pc EXCEPT ![t] = "pg_event"]
             ELSE /\ inv' = [inv EXCEPT ![t] =
                       Finish(r2, IF PgEnd(errors) = "raise"
                                  THEN Raised("RuntimeError", "gesture_failed")
                                  ELSE Returned("None"), simState)]
                  /\ pc' = [pc EXCEPT ![t] = "done"]
    /\ UNCHANGED <<simState, files, calls, gestureVars>>

\* get_simulator_window returned window: the rest of the caller
GswReturn(t, r, window) ==
    IF r.op = "get_simulator_window"
    THEN /\ inv' = [inv EXCEPT ![t] =
              Finish([r EXCEPT !.window = window], Returned("window"), simState)]
         /\ pc' = [pc EXCEPT ![t] = "done"]
    ELSE IF window = NoWindow
    THEN /\ inv' = [inv EXCEPT ![t] =
              Finish([r EXCEPT !.window = window],
                     Raised("RuntimeError", "no_window"), simState)]
         /\ pc' = [pc EXCEPT ![t] = "done"]
    ELSE PerformGestureBegin(t, [r EXCEPT !.window = window],
                             create_tap(Add(window.bounds.x, r.args.x),
                                        Add(window.bounds.y, r.args.y),
                                        r.args.tap_count))

\* what get_simulator_window does with the cache it finds
GswBranchObserveAlways(cached) == "observe"

GswBranch(cached) == IF cached = NoWindow THEN "observe" ELSE "return_cached"

\* get_simulator_window up to its await, or to its return of the cache
GswEnter(t) ==
    /\ pc[t] = "gsw_enter"
    /\ LET r == [inv[t] EXCEPT !.args.cached = cached_window]
       IN  IF GswBranch(cached_window) = "observe"
           THEN /\ inv' = [inv EXCEPT ![t] = r]
                /\ pc' = [pc EXCEPT ![t] = "gsw_observe"]
           ELSE GswReturn(t, r, cached_window)
    /\ UNCHANGED <<simState, files, calls, gestureVars>>

\* await observe_simulator(): it raises, or lists the simulator's windows
\* the cache after observe_simulator raised, or gave the observation
Observed(raised, observation, cached) ==
    IF ~raised /\ observation.windows # <<>>
    THEN observation.windows[1] ELSE cached
GswObserved(t, r, new) ==
    /\ cached_window' = new
    /\ GswReturn(t, r, new)

GswObserve(t) ==
    /\ pc[t] = "gsw_observe"
    /\ \E raised \in BOOLEAN :
         GswObserved(t, Log(inv[t], IF raised THEN "observe_failed" ELSE "observe"),
                     Observed(raised, [windows |-> sim_windows], cached_window))
    /\ UNCHANGED <<simState, files, calls, sim_windows>>

\* await ensure_simulator_focused(): it returns or raises RuntimeError
TapFocus(t) ==
    /\ pc[t] = "tap_focus"
    /\ \E focused \in BOOLEAN :
         IF focused
         THEN /\ inv' = [inv EXCEPT ![t] = Log(@, "focus")]
              /\ pc' = [pc EXCEPT ![t] = "gsw_enter"]
         ELSE /\ inv' = [inv EXCEPT ![t] =
                   Finish(Log(@, "focus_failed"),
                          Raised("RuntimeError", "focus_failed"), simState)]
              /\ pc' = [pc EXCEPT ![t] = "done"]
    /\ UNCHANGED <<simState, files, calls, gestureVars>>

GestureNext ==
    \/ WindowChange
    \/ \E t \in SeqTasks :
          \/ GestureCall(t)
          \/ GenerateEventsCall(t)
          \/ PgStart(t) \/ PgSleep(t) \/ PgPost(t)
          \/ GswEnter(t) \/ GswObserve(t)
          \/ TapFocus(t)

GestureSpec == GestureInit /\ [][GestureNext]_vars

(***************************************************************************)
(* Properties.                                                             *)
(***************************************************************************)
Has(events, e) == \E i \in 1..Len(events) : events[i] = e
Count(events, e) == Cardinality({i \in 1..Len(events) : events[i] = e})
\* the events logged after the first event e
After(events, e) ==
    IF ~Has(events, e) THEN <<>>
    ELSE LET i == CHOOSE k \in 1..Len(events) :
                      events[k] = e /\ \A j \in 1..(k - 1) : events[j] # e
         IN  SubSeq(events, i + 1, Len(events))

Terminated(t, op) == pc[t] = "done" /\ inv[t].op = op

\* the errors exit_fullscreen raises
ExitErrors == {"check_failed", "already_windowed", "menu_not_found",
               "exit_failed", "exit_verify_failed"}

\* C1: every click_text invocation that starts with the simulator windowed
\* leaves it windowed when it terminates, by return or by any error.
C1_WindowedRestoredOnTermination ==
    \A t \in Tasks :
        (Terminated(t, "click_text") /\ inv[t].start_state = "windowed")
            => simState = "windowed"

\* C2: when click_text or find_text_in_simulator terminates after the temp
\* screenshot file was created, that file no longer exists.
C2_TempFileGoneOnTermination ==
    \A t \in Tasks :
        (/\ pc[t] = "done"
         /\ inv[t].op \in {"click_text", "find_text_in_simulator"}
         /\ inv[t].path # NoPath)
            => inv[t].path \notin files

\* click_text clicked and the click primitive reported failure
ClickFailed(t) ==
    /\ Terminated(t, "click_text")
    /\ inv[t].clicks # <<>>
    /\ ~inv[t].success

\* C3 as stated: after a failed click, click_text terminates with the
\* simulator windowed and the temp screenshot deleted.
C3_Original ==
    \A t \in Tasks :
        ClickFailed(t) => simState = "windowed" /\ inv[t].path \notin files

\* C3 amended: after a failed click, click_text calls exit_fullscreen and
\* deletes the temp screenshot before any error propagates; it terminates
\* with the file absent, and with the simulator windowed whenever
\* exit_fullscreen returned normally (the click-failure error is then the
\* one delivered); otherwise the error of exit_fullscreen is delivered.
C3_CleanupOnClickFailure ==
    \A t \in Tasks :
        ClickFailed(t) =>
            /\ inv[t].path \notin files
            /\ Has(After(inv[t].events, "click"), "check_menu")
            /\ inv[t].outcome.kind = "raise"
            /\ inv[t].outcome.msg \in ExitErrors \cup {"click_failed"}
            /\ inv[t].outcome.msg = "click_failed" =>
                  /\ simState = "windowed"
                  /\ Has(After(inv[t].events, "click"), "verify_true")

C3_Witness ==
    \E t \in Tasks :
        /\ ClickFailed(t)
        /\ inv[t].outcome.msg = "click_failed"
        /\ inv[t].start_state = "windowed"
        /\ simState = "windowed"

\* OCR ran and returned (it did not raise)
OcrReturned(t) ==
    /\ Has(inv[t].events, "ocr")
    /\ inv[t].outcome.msg # "ocr_error"

\* C4: click_text never invokes the click primitive when OCR returns no
\* match or when occurrence exceeds the number of matches.
C4_NoClickWithoutTarget ==
    \A t \in Tasks :
        (/\ inv[t].op = "click_text"
         /\ OcrReturned(t)
         /\ \/ Len(inv[t].elements) = 0
            \/ inv[t].occurrence > Len(inv[t].elements))
            => /\ inv[t].clicks = <<>>
               /\ ~Has(inv[t].events, "click")
               /\ pc[t] # "click"

C4_Witness ==
    \E t \in Tasks :
        /\ Terminated(t, "click_text")
        /\ OcrReturned(t)
        /\ Len(inv[t].elements) = 2
        /\ inv[t].occurrence = 3
        /\ inv[t].outcome.msg = "out_of_range"
        /\ inv[t].clicks = <<>>

\* C5: with zero matches click_text delivers the text-not-found error naming
\* the searched text, and with n >= 1 matches and occurrence > n the
\* out-of-range error carrying n and the occurrence, whatever the outcome of
\* the exit_fullscreen call made before the error is raised.
C5_ValidationErrorDelivered ==
    \A t \in Tasks :
        (Terminated(t, "click_text") /\ OcrReturned(t)) =>
            /\ Len(inv[t].elements) = 0 =>
                  /\ inv[t].outcome.kind = "raise"
                  /\ inv[t].outcome.msg = "not_found"
                  /\ inv[t].outcome.text = inv[t].text
            /\ (/\ Len(inv[t].elements) >= 1
                /\ inv[t].occurrence > Len(inv[t].elements)) =>
                  /\ inv[t].outcome.kind = "raise"
                  /\ inv[t].outcome.msg = "out_of_range"
                  /\ inv[t].outcome.n = Len(inv[t].elements)
                  /\ inv[t].outcome.occ = inv[t].occurrence

\* C6: for n matches and 1 <= occurrence <= n, click_text issues exactly one
\* click, at the center of matches[occurrence - 1] (as the whole-pixel
\* screen point int(center_x), int(center_y)) and at no other match.
C6_ClicksOccurrenceNthMatch ==
    \A t \in Tasks :
        (/\ inv[t].op = "click_text"
         /\ OcrReturned(t)
         /\ inv[t].occurrence \in 1..Len(inv[t].elements)) =>
            /\ pc[t] = "click" \/ inv[t].clicks # <<>>
            /\ Len(inv[t].clicks) <= 1
            /\ \A i \in 1..Len(inv[t].clicks) :
                 LET match == inv[t].elements[inv[t].occurrence]
                 IN  /\ inv[t].clicks[i].idx = inv[t].occurrence
                     /\ inv[t].clicks[i].x = PyInt(match.center_x)
                     /\ inv[t].clicks[i].y = PyInt(match.center_y)

C6_Witness ==
    \E t \in Tasks :
        /\ Terminated(t, "click_text")
        /\ Len(inv[t].elements) = 3
        /\ inv[t].occurrence = 2
        /\ Len(inv[t].clicks) = 1
        /\ inv[t].clicks[1].idx = 2
        /\ inv[t].elements[1].center_x # inv[t].elements[2].center_x

\* C7: click_text and click_text_in_simulator reject every occurrence
\* outside 1..len(matches), occurrence <= 0 included, with ValueError and
\* without issuing a click.
C7_OccurrenceOutsideRangeRejected ==
    \A t \in Tasks :
        (/\ pc[t] = "done"
         /\ inv[t].op \in {"click_text", "click_text_in_simulator"}
         /\ OcrReturned(t)
         /\ inv[t].occurrence \notin 1..Len(inv[t].elements)) =>
            /\ inv[t].outcome.kind = "raise"
            /\ inv[t].outcome.exc = "ValueError"
            /\ inv[t].clicks = <<>>

ToggledAndVerified ==
    {<<"check_menu", "keystroke", "sleep", "verify_true">>,
     <<"check_menu", "keystroke", "sleep", "verify_false">>}

\* C9 as stated: called in windowed state, make_window_fullscreen always
\* sends one keystroke, waits, re-queries once, and returns True only if the
\* re-query reports fullscreen (exit_fullscreen symmetric).
C9_Original ==
    \A t \in Tasks :
        /\ (Terminated(t, "make_window_fullscreen")
              /\ inv[t].start_state = "windowed") =>
                /\ inv[t].events \in ToggledAndVerified
                /\ inv[t].outcome.kind = "return"
                      <=> Has(inv[t].events, "verify_true")
        /\ (Terminated(t, "exit_fullscreen")
              /\ inv[t].start_state = "fullscreen") =>
                /\ inv[t].events \in ToggledAndVerified
                /\ inv[t].outcome.kind = "return"
                      <=> Has(inv[t].events, "verify_true")

\* the three ways a transition ends once its menu check has found the
\* simulator in the opposite state
TransitionRun(r, key_failed, verify_failed, reached) ==
    \/ /\ r.events = <<"check_menu", "keystroke">>
       /\ r.outcome = Raised("RuntimeError", key_failed)
    \/ /\ r.events = <<"check_menu", "keystroke", "sleep", "verify_true">>
       /\ r.outcome = Returned("True")
       /\ simState = reached
    \/ /\ r.events = <<"check_menu", "keystroke", "sleep", "verify_false">>
       /\ r.outcome = Raised("RuntimeError", verify_failed)

\* C9 amended: when its menu check reports windowed, make_window_fullscreen
\* issues exactly one toggle-keystroke command; if that command fails it
\* raises at once, otherwise it waits the settle delay and re-queries the
\* state once, returns True only if the re-query reports fullscreen and
\* raises otherwise; it never sends a second keystroke (exit_fullscreen is
\* symmetric when its menu check reports fullscreen).
C9_SingleToggleThenVerify ==
    \A t \in Tasks :
        /\ inv[t].op \in {"make_window_fullscreen", "exit_fullscreen"} =>
              Count(inv[t].events, "keystroke") <= 1
        /\ (Terminated(t, "make_window_fullscreen")
              /\ inv[t].menu_state = "enter") =>
                TransitionRun(inv[t], "enter_failed", "enter_verify_failed",
                              "fullscreen")
        /\ (Terminated(t, "exit_fullscreen")
              /\ inv[t].menu_state = "exit") =>
                TransitionRun(inv[t], "exit_failed", "exit_verify_failed",
                              "windowed")

C9_Witness ==
    \E t \in Tasks :
        /\ Terminated(t, "make_window_fullscreen")
        /\ inv[t].start_state = "windowed"
        /\ inv[t].events = <<"check_menu", "keystroke", "sleep", "verify_false">>
        /\ inv[t].outcome = Raised("RuntimeError", "enter_verify_failed")
        /\ simState = "windowed"

\* C10: in the Unknown state (neither menu item present) none of
\* make_window_fullscreen, exit_fullscreen and ensure_fullscreen sends a
\* toggle keystroke, and each raises.
C10_UnknownStateSurfaced ==
    \A t \in Tasks :
        (/\ inv[t].op \in {"make_window_fullscreen", "exit_fullscreen",
                           "ensure_fullscreen"}
         /\ inv[t].start_state = "unknown") =>
            /\ ~Has(inv[t].events, "keystroke")
            /\ pc[t] \notin {"mwf_key", "xf_key", "ef_toggle"}
            /\ pc[t] = "done" => inv[t].outcome.kind = "raise"

\* C11 as stated: called while the simulator is fullscreen, ensure_fullscreen
\* returns False without raising, sends no toggle keystroke and leaves the
\* simulator fullscreen; it returns True only after a toggle whose
\* verification query reported fullscreen.
C11_Original ==
    \A t \in Tasks :
        inv[t].op = "ensure_fullscreen" =>
            /\ (Terminated(t, "ensure_fullscreen")
                  /\ inv[t].start_state = "fullscreen") =>
                    /\ inv[t].outcome = Returned("False")
                    /\ ~Has(inv[t].events, "keystroke")
                    /\ simState = "fullscreen"
            /\ inv[t].outcome = Returned("True") =>
                    inv[t].events =
                        <<"check_menu", "keystroke", "sleep", "verify_true">>

\* C11 amended: called while the simulator is fullscreen, ensure_fullscreen
\* sends no toggle keystroke and leaves the simulator fullscreen; it returns
\* False when its menu-check script ran, and raises (menu state unreadable)
\* when that script failed; it returns True only after one toggle whose
\* verification query reported fullscreen.
C11_NoOpWhenFullscreen ==
    \A t \in Tasks :
        inv[t].op = "ensure_fullscreen" =>
            /\ inv[t].start_state = "fullscreen" =>
                    /\ ~Has(inv[t].events, "keystroke")
                    /\ pc[t] \in {"ef_check", "done"}
                    /\ simState = "fullscreen"
                    /\ pc[t] = "done" =>
                          inv[t].outcome \in
                              {Returned("False"),
                               Raised("RuntimeError", "read_menu_failed")}
            /\ inv[t].outcome = Returned("True") =>
                    /\ inv[t].events =
                          <<"check_menu", "keystroke", "sleep", "verify_true">>
                    /\ simState = "fullscreen"

C11_Witness ==
    \E t \in Tasks :
        /\ Terminated(t, "ensure_fullscreen")
        /\ inv[t].start_state = "fullscreen"
        /\ inv[t].outcome = Returned("False")
        /\ inv[t].events = <<"check_menu">>
        /\ simState = "fullscreen"

\* click_text of task t captured its screenshot or issued its click while
\* the simulator was not fullscreen
OutsideFullscreen(t) ==
    /\ inv[t].op = "click_text"
    /\ \/ inv[t].capture_state \notin {"", "fullscreen"}
       \/ \E i \in 1..Len(inv[t].clicks) : inv[t].clicks[i].sim # "fullscreen"

\* C12: click_text invocations are not isolated: a click_text captures or
\* clicks outside fullscreen only when another task's invocation has toggled
\* the window in between (or that task has gone on to a later invocation),
\* and with two interleaved invocations such a state is reachable.
C12_OnlyInterleavingBreaksIsolation ==
    \A t \in Tasks :
        OutsideFullscreen(t) =>
            \E u \in Tasks \ {t} :
                \/ Has(inv[u].events, "keystroke")
                \/ calls[u] >= 2

C12_Witness ==
    \E t \in Tasks : \E u \in Tasks \ {t} :
        /\ inv[t].op = "click_text" /\ inv[u].op = "click_text"
        /\ inv[t].capture_state = "windowed"
        /\ Len(inv[t].clicks) = 1
        /\ inv[t].clicks[1].sim = "windowed"
        /\ Has(inv[t].events, "verify_true")

\* click_text captured, selected a match, issued its click and terminated
Clicked(t) == Terminated(t, "click_text") /\ inv[t].clicks # <<>>

\* C13 as stated: when capture and match selection succeed, click_text raises
\* the click-failure error if the click primitive reported failure and
\* returns normally whenever the primitive reported success.
C13_Original ==
    \A t \in Tasks :
        Clicked(t) =>
            IF inv[t].success THEN inv[t].outcome = Returned("None")
            ELSE /\ inv[t].outcome.kind = "raise"
                 /\ inv[t].outcome.msg = "click_failed"

\* C13 amended: when capture and match selection succeed and the
\* exit_fullscreen call that follows the click returns, click_text raises the
\* click-failure error if the click primitive reported failure and returns
\* normally if it reported success; when that exit_fullscreen call raises,
\* its error is the outcome whatever the click primitive reported.
C13_ClickResultDecidesAfterExit ==
    \A t \in Tasks :
        Clicked(t) =>
            IF Has(After(inv[t].events, "click"), "verify_true")
            THEN IF inv[t].success THEN inv[t].outcome = Returned("None")
                 ELSE /\ inv[t].outcome.kind = "raise"
                      /\ inv[t].outcome.exc = "RuntimeError"
                      /\ inv[t].outcome.msg = "click_failed"
            ELSE /\ inv[t].outcome.kind = "raise"
                 /\ inv[t].outcome.msg \in ExitErrors

C13_Witness ==
    \E t \in Tasks :
        /\ Clicked(t)
        /\ inv[t].success
        /\ inv[t].outcome = Returned("None")
        /\ simState = "windowed"

\* C14: click_at_coordinates (of either module) with a coordinate_space other
\* than "screen" or "device" raises ValueError, issues no click and makes no
\* window query.
C14_InvalidSpaceRejected ==
    \A t \in Tasks :
        (/\ inv[t].op \in ClickAtOps
         /\ inv[t].coordinate_space \notin {"screen", "device"}) =>
            /\ inv[t].clicks = <<>>
            /\ inv[t].events = <<>>
            /\ pc[t] \in {"cac_start", "fcac_start", "done"}
            /\ pc[t] = "done" =>
                  inv[t].outcome = Raised("ValueError", "invalid_space")

C14_Witness ==
    \E t \in Tasks :
        /\ Terminated(t, "click_at_coordinates")
        /\ inv[t].coordinate_space = "window"
        /\ inv[t].outcome = Raised("ValueError", "invalid_space")
        /\ inv[t].clicks = <<>>

\* the whole-pixel point (px, py) lies inside the rectangle bounds
Inside(px, py, bounds) ==
    /\ PyInt(bounds.x) <= px
    /\ px <= PyInt(Add(bounds.x, bounds.width))
    /\ PyInt(bounds.y) <= py
    /\ py <= PyInt(Add(bounds.y, bounds.height))

\* C15: click_at_coordinates (of either module) with coordinate_space
\* "device" clicks at the point obtained by mapping (x, y) from the device
\* frame onto the screen bounds of the first simulator window, a point
\* inside that window; when there is no simulator window it raises and does
\* not click.
C15_DeviceClickMappedIntoWindow ==
    \A t \in Tasks :
        (inv[t].op \in ClickAtOps /\ inv[t].coordinate_space = "device") =>
            /\ (pc[t] = "done" /\ inv[t].window = NoWindow) =>
                  /\ inv[t].outcome.kind = "raise"
                  /\ inv[t].clicks = <<>>
            /\ \A i \in 1..Len(inv[t].clicks) :
                 /\ inv[t].window # NoWindow
                 /\ LET mapped ==
                            transform_coordinates(
                                Point(QInt(inv[t].x), QInt(inv[t].y)),
                                device_bounds, inv[t].window.bounds)
                    IN  /\ inv[t].clicks[i].x = PyInt(mapped.x)
                        /\ inv[t].clicks[i].y = PyInt(mapped.y)
                 /\ Inside(inv[t].clicks[i].x, inv[t].clicks[i].y,
                           inv[t].window.bounds)

\* C16: click_text invoked while the simulator is already fullscreen raises
\* at capture: no screenshot is captured, no OCR runs, no click and no toggle
\* keystroke is issued, and the simulator remains fullscreen.
C16_ClickTextFailsWhenAlreadyFullscreen ==
    \A t \in Tasks :
        (inv[t].op = "click_text" /\ inv[t].start_state = "fullscreen") =>
            /\ inv[t].events \in {<<>>, <<"check_menu">>}
            /\ inv[t].path = NoPath
            /\ inv[t].capture_state = ""
            /\ inv[t].clicks = <<>>
            /\ simState = "fullscreen"
            /\ pc[t] \in {"mwf_check", "done"}
            /\ pc[t] = "done" =>
                  /\ inv[t].outcome.kind = "raise"
                  /\ inv[t].outcome.exc = "RuntimeError"

C16_Witness ==
    \E t \in Tasks :
        /\ Terminated(t, "click_text")
        /\ inv[t].start_state = "fullscreen"
        /\ inv[t].outcome = Raised("RuntimeError", "already_fullscreen")
        /\ inv[t].events = <<"check_menu">>

\* C17: when find_text_in_simulator or save_screenshot fails after fullscreen
\* was entered because the OCR raised or the copy of the screenshot failed,
\* it has called exit_fullscreen before the error propagates and the
\* simulator is windowed again.
C17_RestoredOnFailureAfterFullscreen ==
    \A t \in Tasks :
        (/\ pc[t] = "done"
         /\ inv[t].op \in {"find_text_in_simulator", "save_screenshot"}
         /\ inv[t].outcome.kind = "raise"
         /\ inv[t].outcome.msg \in {"ocr_error", "copy_failed"}
         /\ Has(inv[t].events, "bounds")) =>
            /\ Has(After(inv[t].events, "bounds"), "check_menu")
            /\ simState = "windowed"

\* C18: after ensure_fullscreen() has entered fullscreen, an exit_fullscreen()
\* of ocr_controller_functional that returns normally leaves the simulator
\* windowed.
C18_FunctionalExitRestoresWindowed ==
    \A t \in Tasks :
        (/\ Terminated(t, "functional_exit_fullscreen")
         /\ inv[t].prev = "ensure_fullscreen_entered"
         /\ inv[t].start_state = "fullscreen"
         /\ inv[t].outcome.kind = "return") =>
            simState = "windowed"

\* s occurs in t as a substring, letter case ignored
ContainsIgnoringCase(s, t) ==
    \E offset \in 0..(Len(t) - Len(s)) :
        \A j \in 1..Len(s) : LowerChar(t[offset + j]) = LowerChar(s[j])

\* the annotations a locator has to keep, in the engine's order
Kept(annotations, search_text) ==
    LET Keep(a) == search_text = None \/ ContainsIgnoringCase(search_text, a.text)
    IN  SelectSeq(annotations, Keep)

\* a locator was applied and returned
Located(t) == pc[t] = "done" /\ inv[t].op \in Locators

\* C19: the OCR locator returns exactly the annotations whose text contains
\* the search text as a case-insensitive substring (all of them when no
\* search text is given), in the engine's order, none reordered, duplicated
\* or dropped.
C19_LocatorFiltersInOrder ==
    \A t \in Tasks :
        Located(t) =>
            LET expected == Kept(inv[t].annotations, inv[t].text)
            IN  /\ Len(inv[t].elements) = Len(expected)
                /\ \A i \in 1..Len(expected) :
                     /\ inv[t].elements[i].text = expected[i].text
                     /\ inv[t].elements[i].confidence = expected[i].confidence

C19_Witness ==
    \E t \in Tasks :
        /\ Located(t)
        /\ inv[t].text = <<"s", "e">>
        /\ Len(inv[t].annotations) = 3
        /\ inv[t].annotations[1].text = <<"s", "E", "t">>
        /\ inv[t].annotations[2].text = <<"A">>
        /\ inv[t].annotations[3].text = <<"S", "e">>
        /\ Len(inv[t].elements) = 2
        /\ inv[t].elements[1].text = <<"s", "E", "t">>
        /\ inv[t].elements[2].text = <<"S", "e">>

\* the pixel bounds of a match, as the locator op reports them
BoundsOf(op, match) ==
    IF op = "find_text_elements"
    THEN Rectangle(match.x, match.y, match.width, match.height)
    ELSE match.bounds

\* the top-left-origin pixel bounds of an annotation in a W x H image
TopLeftBounds(ann, W, H) ==
    Rectangle(Mul(ann.bounds[1], QInt(W)),
              Mul(Sub(Sub(QInt(1), ann.bounds[2]),
                        ann.bounds[4]), QInt(H)),
              Mul(ann.bounds[3], QInt(W)),
              Mul(ann.bounds[4], QInt(H)))

\* C20: every match of the OCR locator (find_text_elements and perform_ocr)
\* has the top-left-origin pixel bounds x = normX*W,
\* y = (1 - normY - normHeight)*H, width = normWidth*W, height = normHeight*H.
C20_MatchBoundsTopLeftOrigin ==
    \A t \in Tasks :
        Located(t) =>
            LET expected == Kept(inv[t].annotations, inv[t].text)
            IN  \A i \in 1..Len(inv[t].elements) :
                    i <= Len(expected) =>
                        BoundsOf(inv[t].op, inv[t].elements[i])
                            = TopLeftBounds(expected[i], ImgW, ImgH)

(***************************************************************************)
(* The coordinate functions (GeometrySpec).                                *)
(***************************************************************************)
\* the tolerance the tests compare floats with: 1e-4
Tolerance == Div(QInt(1), QInt(10000))
FAbs(a) == IF Cmp(a, QInt(0)) < 0 THEN Sub(QInt(0), a) ELSE a
Within(a, b) == Cmp(FAbs(Sub(a, b)), Tolerance) < 0
SameFloat(a, b) == Cmp(a, b) = 0

NonzeroSize(rect) == ~IsZero(rect.width) /\ ~IsZero(rect.height)
\* the relative position of a coordinate within a rectangle's side
Relative(c, origin, size) == Div(Sub(c, origin), size)

Transformed(t) == pc[t] = "done" /\ inv[t].op = "transform_coordinates"

\* points a and b have the same relative position, a in R1 and b in R2,
\* and are the same point when R1 = R2, coordinates compared with Same
PositionPreserved(a, R1, b, R2, Same(_, _)) ==
    /\ Same(Relative(b.x, R2.x, R2.width), Relative(a.x, R1.x, R1.width))
    /\ Same(Relative(b.y, R2.y, R2.height), Relative(a.y, R1.y, R1.height))
    /\ R1 = R2 => Same(b.x, a.x) /\ Same(b.y, a.y)

\* C21 (as stated): for rectangles R1, R2 of nonzero width and height,
\* transform_coordinates(p, R1, R2) has exactly the relative position within
\* R2 that p has within R1, and transform_coordinates(p, R, R) = p.
C21_Original ==
    \A t \in SeqTasks :
        (Transformed(t) /\ NonzeroSize(inv[t].args.from_bounds)
            /\ NonzeroSize(inv[t].args.to_bounds))
        => /\ inv[t].outcome.kind = "return"
           /\ PositionPreserved(inv[t].args.point, inv[t].args.from_bounds,
                                inv[t].result, inv[t].args.to_bounds,
                                SameFloat)

\* C21 (amended): for rectangles R1, R2 of nonzero width and height,
\* transform_coordinates(p, R1, R2) returns a point whose relative position
\* within R2 is within 1e-4 of p's relative position within R1, and
\* transform_coordinates(p, R, R) is within 1e-4 of p in both coordinates.
C21_PositionPreservedWithinTolerance ==
    \A t \in SeqTasks :
        (Transformed(t) /\ NonzeroSize(inv[t].args.from_bounds)
            /\ NonzeroSize(inv[t].args.to_bounds))
        => /\ inv[t].outcome.kind = "return"
           /\ PositionPreserved(inv[t].args.point, inv[t].args.from_bounds,
                                inv[t].result, inv[t].args.to_bounds,
                                Within)

\* a point outside the origin was mapped between two different rectangles
\* of nonzero size, to a float that is not a small fraction
C21_Witness ==
    \E t \in SeqTasks :
        /\ Transformed(t)
        /\ NonzeroSize(inv[t].args.from_bounds)
        /\ NonzeroSize(inv[t].args.to_bounds)
        /\ inv[t].args.from_bounds # inv[t].args.to_bounds
        /\ inv[t].outcome.kind = "return"
        /\ IsFloat(inv[t].result.x)
        /\ inv[t].result # inv[t].args.point

\* C22: transform_coordinates raises, and returns no point, whenever the
\* source rectangle or the destination rectangle has zero width or height.
C22_ZeroSizeRaises ==
    \A t \in SeqTasks :
        (Transformed(t) /\ (~NonzeroSize(inv[t].args.from_bounds)
                              \/ ~NonzeroSize(inv[t].args.to_bounds)))
        => inv[t].outcome.kind = "raise" /\ inv[t].result = NoPoint

ClickTargetDerived(t) == pc[t] = "done" /\ inv[t].op = "click_target"

\* C30 (as stated): for every normalized OCR box and image size, the center
\* click_text takes from find_text_elements equals the point
\* calculate_click_point derives from perform_ocr's bounds when the
\* screenshot rectangle and the target rectangle coincide.
C30_Original ==
    \A t \in SeqTasks :
        ClickTargetDerived(t)
        => /\ SameFloat(inv[t].center.x, inv[t].result.x)
           /\ SameFloat(inv[t].center.y, inv[t].result.y)

\* C30 (amended): for every normalized OCR box and image size, the center
\* click_text takes from find_text_elements and the point
\* calculate_click_point derives from perform_ocr's bounds, with the
\* screenshot rectangle and the target rectangle the same, are within 1e-4
\* of each other in both coordinates, and the pixels int() makes of them
\* differ by at most one.
C30_ClickTargetsWithinTolerance ==
    \A t \in SeqTasks :
        ClickTargetDerived(t)
        => /\ inv[t].center.kind = "point" /\ inv[t].result.kind = "point"
           /\ Within(inv[t].center.x, inv[t].result.x)
           /\ Within(inv[t].center.y, inv[t].result.y)
           /\ Abs(PyInt(inv[t].center.x) - PyInt(inv[t].result.x)) <= 1
           /\ Abs(PyInt(inv[t].center.y) - PyInt(inv[t].result.y)) <= 1

\* both pipelines derived a target for a box of nonzero height on the
\* device-size image, and int() makes different pixels of the two
C30_Witness ==
    \E t \in SeqTasks :
        /\ ClickTargetDerived(t)
        /\ inv[t].args.image_height = DeviceHeight
        /\ ~IsZero(inv[t].args.annotation.bounds[4])
        /\ PyInt(inv[t].center.y) # PyInt(inv[t].result.y)

(***************************************************************************)
(* The report of find_text_in_simulator and the click of click_text.       *)
(***************************************************************************)
Reported(t) ==
    /\ Terminated(t, "find_text_in_simulator")
    /\ inv[t].outcome = Returned("report")

\* the point click_text clicks for the given occurrence among the elements
ClickTextPoint(elements, occurrence) ==
    LET sel == ClickTextSelect(Len(elements), occurrence)
        target == elements[sel.idx]
    IN  IF sel.kind # "target" THEN [kind |-> sel.kind, x |-> 0, y |-> 0, idx |-> 0]
        ELSE [screenshot_to_screen_coordinates(target.center_x, target.center_y,
                                               NoWindow, IsFullscreenDefault)
              EXCEPT !.kind = "target"] @@ [idx |-> sel.idx]

\* entry i of the report names match i of the elements, which is the match
\* click_text takes for occurrence i, and its point is Near the click
EntryIsClickTarget(entry, elements, i, Near(_, _)) ==
    LET click == ClickTextPoint(elements, i)
    IN  /\ entry.i = i
        /\ entry.text = elements[i].text
        /\ entry.x = FormatF0(elements[i].center_x)
        /\ entry.y = FormatF0(elements[i].center_y)
        /\ click.kind = "target"
        /\ click.idx = i
        /\ Near(entry.x, click.x)
        /\ Near(entry.y, click.y)

ReportMatchesClicks(Near(_, _)) ==
    \A t \in Tasks :
        /\ Reported(t)
           => /\ Len(inv[t].report) = Len(inv[t].elements)
              /\ \A i \in 1..Len(inv[t].report) :
                    EntryIsClickTarget(inv[t].report[i], inv[t].elements, i, Near)
        /\ (inv[t].op = "click_text" /\ inv[t].clicks # <<>>
               /\ inv[t].occurrence \in 1..Len(inv[t].elements))
           => LET click == inv[t].clicks[1]
                  entry == FormatResults(inv[t].elements)[inv[t].occurrence]
              IN  /\ click.idx = inv[t].occurrence
                  /\ EntryIsClickTarget(entry, inv[t].elements, click.idx, Near)
                  /\ Near(entry.x, click.x)
                  /\ Near(entry.y, click.y)

SamePixel(a, b) == a = b
AdjacentPixel(a, b) == Abs(a - b) <= 1

\* C23 (as stated): entry i (1-indexed) of the find_text_in_simulator report
\* is match i in OCR order and shows that match's center, the same match
\* and the same point click_text with occurrence = i clicks for the same OCR
\* output.
C23_Original == ReportMatchesClicks(SamePixel)

\* C23 (amended): entry i (1-indexed) of the find_text_in_simulator report
\* is match i in OCR order, the match click_text with occurrence = i clicks
\* for the same OCR output; the entry shows the center rounded to the
\* nearest integer while click_text clicks the center truncated by int(),
\* so the two points are at most one pixel apart in each coordinate.
C23_ReportEntriesNearClickPoints == ReportMatchesClicks(AdjacentPixel)

\* a report of two entries or more, one of them showing another pixel than
\* click_text clicks
C23_Witness ==
    \E t \in Tasks :
        /\ Reported(t)
        /\ Len(inv[t].report) >= 2
        /\ \E i \in 1..Len(inv[t].report) :
              inv[t].report[i].x # ClickTextPoint(inv[t].elements, i).x

(***************************************************************************)
(* The order of the steps of click_text.                                   *)
(***************************************************************************)
\* event k of the history comes after the one toggle that entered
\* fullscreen and after its successful verification, and no other toggle
\* was sent before it
InsideFullscreenWindow(events, k) ==
    LET before == SubSeq(events, 1, k - 1)
    IN  /\ Count(before, "keystroke") = 1
        /\ Has(After(before, "keystroke"), "verify_true")

\* C24: in a sequential execution of click_text, the screenshot capture and
\* the click both occur after the fullscreen verification succeeded and
\* before any exit toggle is sent, and at most one click is issued per
\* invocation.
C24_CaptureAndClickInsideFullscreen ==
    \A t \in Tasks :
        inv[t].op = "click_text"
        => /\ \A k \in 1..Len(inv[t].events) :
                 inv[t].events[k] \in {"screencapture", "click"}
                 => InsideFullscreenWindow(inv[t].events, k)
           /\ Count(inv[t].events, "click") <= 1
           /\ Len(inv[t].clicks) <= 1

\* a click_text that captured, clicked and then sent the exit toggle
C24_Witness ==
    \E t \in Tasks :
        /\ Terminated(t, "click_text")
        /\ Has(inv[t].events, "screencapture")
        /\ Len(inv[t].clicks) = 1
        /\ Count(inv[t].events, "keystroke") = 2

(***************************************************************************)
(* A simulator left fullscreen.                                            *)
(***************************************************************************)
CaptureOps == {"click_text", "find_text_in_simulator", "save_screenshot"}

\* task t's invocation is a capture operation, and t's previous invocation
\* was a capture operation that terminated leaving the simulator fullscreen
AfterLeftFullscreen(t) ==
    inv[t].op \in CaptureOps /\ inv[t].prev = "capture_left_fullscreen"

\* C25: once click_text, find_text_in_simulator or save_screenshot has
\* terminated leaving the simulator fullscreen, a later invocation of these
\* operations fails at capture (before any screenshot is taken) without
\* sending a toggle, and the simulator stays fullscreen.
C25_LeftFullscreenBlocksLaterCaptures ==
    \A t \in Tasks :
        AfterLeftFullscreen(t)
        => /\ inv[t].start_state = "fullscreen"
           /\ simState = "fullscreen"
           /\ ~Has(inv[t].events, "keystroke")
           /\ ~Has(inv[t].events, "screencapture")
           /\ inv[t].path = NoPath
           /\ pc[t] = "done"
              => /\ inv[t].outcome.kind = "raise"
                 /\ inv[t].end_state = "fullscreen"

\* a second capture operation failed after the first one left the simulator
\* fullscreen
C25_Witness ==
    \E t \in Tasks :
        /\ AfterLeftFullscreen(t)
        /\ calls[t] = 2
        /\ pc[t] = "done"
        /\ inv[t].outcome.kind = "raise"
        /\ Has(inv[t].events, "check_menu")


(***************************************************************************)
(* The cached simulator window.                                            *)
(***************************************************************************)
Observing(r) == Has(r.events, "observe") \/ Has(r.events, "observe_failed")
GswDone(t) == inv[t].op = "get_simulator_window" /\ pc[t] = "done"

\* a call that finds a window in the cache returns it and observes nothing;
\* a call that finds the cache empty observes
CacheDecidesObservation ==
    \A t \in Tasks :
        GswDone(t) =>
            /\ inv[t].outcome = Returned("window")
            /\ inv[t].args.cached # NoWindow =>
                   inv[t].window = inv[t].args.cached /\ ~Observing(inv[t])
            /\ inv[t].args.cached = NoWindow => Observing(inv[t])

\* a window in the cache stays there, whatever the simulator's windows do
CacheKept == cached_window # NoWindow => cached_window' = cached_window

\* the step of task t in which its observation ends
ObservationEnds(t) == pc[t] = "gsw_observe" /\ pc'[t] # "gsw_observe"
\* an observation that raised or listed no window leaves the cache empty and
\* the call returns no window; one that listed windows caches the first
ObservationCached(t) ==
    LET r == inv'[t]
        failed == r.events[Len(r.events)] = "observe_failed"
    IN  ObservationEnds(t) =>
            /\ cached_window = NoWindow
            /\ failed \/ sim_windows = <<>> => cached_window' = NoWindow
            /\ ~failed /\ sim_windows # <<>> => cached_window' = sim_windows[1]
            /\ r.window = cached_window'
            /\ r.op = "get_simulator_window" =>
                   r.outcome = Returned("window") /\ pc'[t] = "done"

\* C26: get_simulator_window caches only a successfully observed window:
\* once a window is cached every later call returns that same window without
\* observing again, also when the simulator's window has changed since; a
\* failed or empty observation is swallowed (the call returns no window),
\* leaves the cache empty, and the next call observes again.
C26_CacheOnlySuccessfulObservation ==
    /\ []CacheDecidesObservation
    /\ [][CacheKept]_vars
    /\ [][\A t \in Tasks : ObservationCached(t)]_vars

\* a call returned the cached window, observing nothing, after the
\* simulator's window had moved
C26_Witness ==
    \E t \in Tasks :
        /\ GswDone(t)
        /\ inv[t].args.cached # NoWindow
        /\ inv[t].window = inv[t].args.cached
        /\ sim_windows # <<>>
        /\ sim_windows[1] # inv[t].window
        /\ ~Observing(inv[t])

(***************************************************************************)
(* The events generate_events gives for a gesture.                         *)
(***************************************************************************)
GenerateEventsDone(t) ==
    inv[t].op = "generate_events" /\ pc[t] = "done"
SwipeDone(t) ==
    /\ GenerateEventsDone(t)
    /\ inv[t].args.gesture.type = "SwipeGesture"
    /\ inv[t].args.gesture.steps >= 1
TapDone(t) ==
    /\ GenerateEventsDone(t)
    /\ inv[t].args.gesture.type = "TapGesture"
    /\ inv[t].args.gesture.tap_count >= 1

IsDown(e) == e.event_type = "kCGEventLeftMouseDown"
IsUp(e) == e.event_type = "kCGEventLeftMouseUp"
IsDrag(e) == e.event_type = "kCGEventLeftMouseDragged"
At(e, point) == SameFloat(e.x, point.x) /\ SameFloat(e.y, point.y)

SwipeShape(gesture, events) ==
    LET n == gesture.steps
    IN  /\ Len(events) = n + 2
        /\ IsDown(events[1])
        /\ At(events[1], gesture.start)
        /\ IsZero(events[1].timestamp_offset)
        /\ \A i \in 2..(n + 1) : IsDrag(events[i])
        /\ IsUp(events[n + 2])
        /\ At(events[n + 2], gesture.end)
        /\ SameFloat(events[n + 2].timestamp_offset, gesture.duration)

\* C27: for a SwipeGesture with steps = n >= 1 generate_events gives exactly
\* n + 2 events: a mouse-down at the start point with offset 0, n drags, and
\* a mouse-up at the end point with offset equal to the duration.
C27_SwipeHasDownDragsUp ==
    \A t \in Tasks :
        SwipeDone(t) =>
            /\ inv[t].outcome = Returned("events")
            /\ SwipeShape(inv[t].args.gesture, inv[t].sequence)

C27_Witness ==
    \E t \in Tasks :
        /\ SwipeDone(t)
        /\ inv[t].args.gesture.steps = MaxSteps
        /\ Len(inv[t].sequence) = MaxSteps + 2
        /\ IsDrag(inv[t].sequence[MaxSteps + 1])

\* the button is down after the first i events
RECURSIVE Pressed(_, _)
Pressed(events, i) ==
    IF i = 0 THEN FALSE
    ELSE IF IsDown(events[i]) THEN TRUE
    ELSE IF IsUp(events[i]) THEN FALSE
    ELSE Pressed(events, i - 1)

\* downs and ups alternate from a down to an up, drags come while the button
\* is down
Alternating(events) ==
    /\ events # <<>>
    /\ IsDown(events[1])
    /\ IsUp(events[Len(events)])
    /\ \A i \in 1..Len(events) :
          /\ IsDown(events[i]) => ~Pressed(events, i - 1)
          /\ IsUp(events[i]) => Pressed(events, i - 1)
          /\ IsDrag(events[i]) => Pressed(events, i - 1)

NonDecreasing(events) ==
    \A i \in 1..(Len(events) - 1) :
        Cmp(events[i].timestamp_offset, events[i + 1].timestamp_offset) <= 0

\* non-decreasing, but that the last event may come before the one before it
\* by less than Tolerance
NonDecreasingButLast(events) ==
    /\ NonDecreasing(SubSeq(events, 1, Len(events) - 1))
    /\ Len(events) >= 2 =>
          Cmp(Sub(events[Len(events) - 1].timestamp_offset,
                  events[Len(events)].timestamp_offset), Tolerance) < 0

\* C28 as the specification states it: in every sequence generate_events
\* gives (tap_count >= 1, steps >= 1) the offsets are non-decreasing, downs
\* and ups alternate from a down to an up, and drags come between a down and
\* its up.
C28_Original ==
    \A t \in Tasks :
        TapDone(t) \/ SwipeDone(t) =>
            NonDecreasing(inv[t].sequence) /\ Alternating(inv[t].sequence)

\* C28: in every sequence generate_events gives (tap_count >= 1, steps >= 1)
\* downs and ups alternate from a down to an up and drags come between a
\* down and its up; the offsets of a tap are non-decreasing; the offsets of a
\* swipe are non-decreasing up to its last drag, and its mouse-up, at the
\* duration, comes before the last drag by less than the tolerance if at all.
C28_OffsetsOrderedUpToRounding ==
    \A t \in Tasks :
        /\ TapDone(t) \/ SwipeDone(t) => Alternating(inv[t].sequence)
        /\ TapDone(t) => NonDecreasing(inv[t].sequence)
        /\ SwipeDone(t) => NonDecreasingButLast(inv[t].sequence)

\* a swipe whose mouse-up has a smaller offset than its last drag
C28_Witness ==
    \E t \in Tasks :
        /\ SwipeDone(t)
        /\ Alternating(inv[t].sequence)
        /\ ~NonDecreasing(inv[t].sequence)
        /\ NonDecreasingButLast(inv[t].sequence)

(***************************************************************************)
(* perform_gesture.                                                        *)
(***************************************************************************)
Posting(t) == inv[t].op \in {"perform_gesture", "tap_at"}
SomePostFailed(r) == \E i \in 1..Len(r.posted) : ~r.posted[i].success
GestureFailed == Raised("RuntimeError", "gesture_failed")

\* the posts so far are the first events of the sequence, in order
PostedInOrder(r) ==
    /\ Len(r.posted) <= Len(r.sequence)
    /\ \A i \in 1..Len(r.posted) : r.posted[i].event = r.sequence[i]

\* C29: perform_gesture attempts to post every event of the sequence in
\* order, also after a post failed, so that the last mouse-up is always
\* attempted; it raises RuntimeError after the last event if and only if a
\* post failed.
C29_AllEventsPostedThenRaise ==
    \A t \in Tasks :
        Posting(t) =>
            /\ PostedInOrder(inv[t])
            /\ inv[t].outcome = GestureFailed =>
                   pc[t] = "done" /\ inv[t].sequence # <<>>
            /\ pc[t] = "done" /\ inv[t].sequence # <<>> =>
                   /\ Len(inv[t].posted) = Len(inv[t].sequence)
                   /\ IsUp(inv[t].posted[Len(inv[t].posted)].event)
                   /\ inv[t].outcome = GestureFailed <=> SomePostFailed(inv[t])
                   /\ ~SomePostFailed(inv[t]) => inv[t].outcome = Returned("None")

\* the first post failed, the later ones, the last mouse-up among them, were
\* made all the same, and RuntimeError was raised at the end
C29_Witness ==
    \E t \in Tasks :
        /\ Posting(t)
        /\ pc[t] = "done"
        /\ Len(inv[t].sequence) >= 4
        /\ Len(inv[t].posted) = Len(inv[t].sequence)
        /\ ~inv[t].posted[1].success
        /\ inv[t].posted[Len(inv[t].posted)].success
        /\ inv[t].outcome = GestureFailed

=========================================================================
